---- MODULE Spec2Model ----
(***************************************************************************)
(* Model of src/utils/totp.ts: the Base32 decoder, the validation          *)
(* predicate, the TOTP code generator and the time-remaining helper.       *)
(*                                                                         *)
(* Strings are sequences of one-character strings.  JavaScript int32       *)
(* values are integers in -2^31 .. 2^31-1.  Clock readings and counters    *)
(* exceed 32 bits, so they are kept as three 16-bit limbs, most            *)
(* significant first.                                                      *)
(***************************************************************************)
EXTENDS Integers, Sequences, FiniteSets, TLC

VARIABLES
    str,            \* base32ToBuffer / isValidBase32: the argument
    pc,             \* base32ToBuffer: "start", "loop" or "done"
    cleanStr,       \* base32ToBuffer: the normalised string
    i,              \* base32ToBuffer: loop index
    bits,           \* base32ToBuffer: bit count
    value,          \* base32ToBuffer: int32 accumulator
    index,          \* base32ToBuffer: next output position
    buffer,         \* base32ToBuffer: the pre-sized Uint8Array
    valid,          \* isValidBase32: the call made, [called, arg, res]
    secret,         \* generateTOTP: the account's secret
    windowSeconds,  \* generateTOTP / getTimeRemaining: the window length
    now,            \* the wall clock, [sec: limbs, ms: 0..999]
    oracle,         \* HMAC-SHA1 as a function, fixed lazily: set of [key, msg, out]
    calls,          \* the calls made so far, in order; settled ones have results
    ticks,          \* number of clock advances so far
    accounts,       \* App: the accounts, [id, secret], in order
    codes,          \* App: the codes state, one entry per account id
    timeLeft,       \* App: the displayed seconds left
    pending,        \* App: the updateCodes calls in flight
    mounted,        \* App: the timer-loop effect has run
    fired,          \* App: the interval fired in the current second
    refreshedAt,    \* App: the time step at the latest updateCodes call
    nextId          \* App: the id of the next account added

decVars == <<str, pc, cleanStr, i, bits, value, index, buffer, valid>>
totpVars == <<secret, windowSeconds, now, oracle, calls, ticks>>
appVars == <<accounts, codes, timeLeft, pending, mounted, fired, refreshedAt,
            nextId>>
vars == <<str, pc, cleanStr, i, bits, value, index, buffer, valid,
          secret, windowSeconds, now, oracle, calls, ticks,
          accounts, codes, timeLeft, pending, mounted, fired, refreshedAt,
          nextId>>

(***************************************************************************)
(* Bounds of the model.                                                    *)
(***************************************************************************)
MaxLen == 5         \* longest input string over MixedChars
MaxAlphaLen == 8    \* longest input string over AlphaChars
MaxTicks == 3       \* clock advances per behaviour
MaxCalls == 2       \* calls recorded per behaviour

MixedChars == {"A", "7", "b", "-", " ", "=", "U+00DF"}
AlphaChars == {"A", "7", "K"}

(***************************************************************************)
(* Characters.                                                             *)
(***************************************************************************)
UpperChars == <<"A","B","C","D","E","F","G","H","I","J","K","L","M",
                "N","O","P","Q","R","S","T","U","V","W","X","Y","Z">>
LowerChars == <<"a","b","c","d","e","f","g","h","i","j","k","l","m",
                "n","o","p","q","r","s","t","u","v","w","x","y","z">>

base32Chars == <<"A","B","C","D","E","F","G","H","I","J","K","L","M",
                 "N","O","P","Q","R","S","T","U","V","W","X","Y","Z",
                 "2","3","4","5","6","7">>

\* The 25 UTF-16 code units /\s/ matches.  A character outside ASCII is
\* written by its code unit, "U+XXXX".
WhitespaceChars ==
    {"\t", "\n", "U+000B", "\f", "\r", " ", "U+00A0", "U+1680",
     "U+2000", "U+2001", "U+2002", "U+2003", "U+2004", "U+2005", "U+2006",
     "U+2007", "U+2008", "U+2009", "U+200A",
     "U+2028", "U+2029", "U+202F", "U+205F", "U+3000", "U+FEFF"}

Range(s) == {s[k] : k \in 1..Len(s)}

\* String.prototype.toUpperCase outside a-z (Unicode 17 default case
\* conversion): each code unit that it changes, followed by the code units
\* it becomes.
SpecialUpper ==
    {
     <<"U+00B5", "U+039C">>, <<"U+00DF", "S", "S">>, <<"U+00E0", "U+00C0">>,
     <<"U+00E1", "U+00C1">>, <<"U+00E2", "U+00C2">>, <<"U+00E3", "U+00C3">>,
     <<"U+00E4", "U+00C4">>, <<"U+00E5", "U+00C5">>, <<"U+00E6", "U+00C6">>,
     <<"U+00E7", "U+00C7">>, <<"U+00E8", "U+00C8">>, <<"U+00E9", "U+00C9">>,
     <<"U+00EA", "U+00CA">>, <<"U+00EB", "U+00CB">>, <<"U+00EC", "U+00CC">>,
     <<"U+00ED", "U+00CD">>, <<"U+00EE", "U+00CE">>, <<"U+00EF", "U+00CF">>,
     <<"U+00F0", "U+00D0">>, <<"U+00F1", "U+00D1">>, <<"U+00F2", "U+00D2">>,
     <<"U+00F3", "U+00D3">>, <<"U+00F4", "U+00D4">>, <<"U+00F5", "U+00D5">>,
     <<"U+00F6", "U+00D6">>, <<"U+00F8", "U+00D8">>, <<"U+00F9", "U+00D9">>,
     <<"U+00FA", "U+00DA">>, <<"U+00FB", "U+00DB">>, <<"U+00FC", "U+00DC">>,
     <<"U+00FD", "U+00DD">>, <<"U+00FE", "U+00DE">>, <<"U+00FF", "U+0178">>,
     <<"U+0101", "U+0100">>, <<"U+0103", "U+0102">>, <<"U+0105", "U+0104">>,
     <<"U+0107", "U+0106">>, <<"U+0109", "U+0108">>, <<"U+010B", "U+010A">>,
     <<"U+010D", "U+010C">>, <<"U+010F", "U+010E">>, <<"U+0111", "U+0110">>,
     <<"U+0113", "U+0112">>, <<"U+0115", "U+0114">>, <<"U+0117", "U+0116">>,
     <<"U+0119", "U+0118">>, <<"U+011B", "U+011A">>, <<"U+011D", "U+011C">>,
     <<"U+011F", "U+011E">>, <<"U+0121", "U+0120">>, <<"U+0123", "U+0122">>,
     <<"U+0125", "U+0124">>, <<"U+0127", "U+0126">>, <<"U+0129", "U+0128">>,
     <<"U+012B", "U+012A">>, <<"U+012D", "U+012C">>, <<"U+012F", "U+012E">>,
     <<"U+0131", "I">>, <<"U+0133", "U+0132">>, <<"U+0135", "U+0134">>,
     <<"U+0137", "U+0136">>, <<"U+013A", "U+0139">>, <<"U+013C", "U+013B">>,
     <<"U+013E", "U+013D">>, <<"U+0140", "U+013F">>, <<"U+0142", "U+0141">>,
     <<"U+0144", "U+0143">>, <<"U+0146", "U+0145">>, <<"U+0148", "U+0147">>,
     <<"U+0149", "U+02BC", "N">>, <<"U+014B", "U+014A">>,
     <<"U+014D", "U+014C">>, <<"U+014F", "U+014E">>, <<"U+0151", "U+0150">>,
     <<"U+0153", "U+0152">>, <<"U+0155", "U+0154">>, <<"U+0157", "U+0156">>,
     <<"U+0159", "U+0158">>, <<"U+015B", "U+015A">>, <<"U+015D", "U+015C">>,
     <<"U+015F", "U+015E">>, <<"U+0161", "U+0160">>, <<"U+0163", "U+0162">>,
     <<"U+0165", "U+0164">>, <<"U+0167", "U+0166">>, <<"U+0169", "U+0168">>,
     <<"U+016B", "U+016A">>, <<"U+016D", "U+016C">>, <<"U+016F", "U+016E">>,
     <<"U+0171", "U+0170">>, <<"U+0173", "U+0172">>, <<"U+0175", "U+0174">>,
     <<"U+0177", "U+0176">>, <<"U+017A", "U+0179">>, <<"U+017C", "U+017B">>,
     <<"U+017E", "U+017D">>, <<"U+017F", "S">>, <<"U+0180", "U+0243">>,
     <<"U+0183", "U+0182">>, <<"U+0185", "U+0184">>, <<"U+0188", "U+0187">>,
     <<"U+018C", "U+018B">>, <<"U+0192", "U+0191">>, <<"U+0195", "U+01F6">>,
     <<"U+0199", "U+0198">>, <<"U+019A", "U+023D">>, <<"U+019B", "U+A7DC">>,
     <<"U+019E", "U+0220">>, <<"U+01A1", "U+01A0">>, <<"U+01A3", "U+01A2">>,
     <<"U+01A5", "U+01A4">>, <<"U+01A8", "U+01A7">>, <<"U+01AD", "U+01AC">>,
     <<"U+01B0", "U+01AF">>, <<"U+01B4", "U+01B3">>, <<"U+01B6", "U+01B5">>,
     <<"U+01B9", "U+01B8">>, <<"U+01BD", "U+01BC">>, <<"U+01BF", "U+01F7">>,
     <<"U+01C5", "U+01C4">>, <<"U+01C6", "U+01C4">>, <<"U+01C8", "U+01C7">>,
     <<"U+01C9", "U+01C7">>, <<"U+01CB", "U+01CA">>, <<"U+01CC", "U+01CA">>,
     <<"U+01CE", "U+01CD">>, <<"U+01D0", "U+01CF">>, <<"U+01D2", "U+01D1">>,
     <<"U+01D4", "U+01D3">>, <<"U+01D6", "U+01D5">>, <<"U+01D8", "U+01D7">>,
     <<"U+01DA", "U+01D9">>, <<"U+01DC", "U+01DB">>, <<"U+01DD", "U+018E">>,
     <<"U+01DF", "U+01DE">>, <<"U+01E1", "U+01E0">>, <<"U+01E3", "U+01E2">>,
     <<"U+01E5", "U+01E4">>, <<"U+01E7", "U+01E6">>, <<"U+01E9", "U+01E8">>,
     <<"U+01EB", "U+01EA">>, <<"U+01ED", "U+01EC">>, <<"U+01EF", "U+01EE">>,
     <<"U+01F0", "J", "U+030C">>, <<"U+01F2", "U+01F1">>,
     <<"U+01F3", "U+01F1">>, <<"U+01F5", "U+01F4">>, <<"U+01F9", "U+01F8">>,
     <<"U+01FB", "U+01FA">>, <<"U+01FD", "U+01FC">>, <<"U+01FF", "U+01FE">>,
     <<"U+0201", "U+0200">>, <<"U+0203", "U+0202">>, <<"U+0205", "U+0204">>,
     <<"U+0207", "U+0206">>, <<"U+0209", "U+0208">>, <<"U+020B", "U+020A">>,
     <<"U+020D", "U+020C">>, <<"U+020F", "U+020E">>, <<"U+0211", "U+0210">>,
     <<"U+0213", "U+0212">>, <<"U+0215", "U+0214">>, <<"U+0217", "U+0216">>,
     <<"U+0219", "U+0218">>, <<"U+021B", "U+021A">>, <<"U+021D", "U+021C">>,
     <<"U+021F", "U+021E">>, <<"U+0223", "U+0222">>, <<"U+0225", "U+0224">>,
     <<"U+0227", "U+0226">>, <<"U+0229", "U+0228">>, <<"U+022B", "U+022A">>,
     <<"U+022D", "U+022C">>, <<"U+022F", "U+022E">>, <<"U+0231", "U+0230">>,
     <<"U+0233", "U+0232">>, <<"U+023C", "U+023B">>, <<"U+023F", "U+2C7E">>,
     <<"U+0240", "U+2C7F">>, <<"U+0242", "U+0241">>, <<"U+0247", "U+0246">>,
     <<"U+0249", "U+0248">>, <<"U+024B", "U+024A">>, <<"U+024D", "U+024C">>,
     <<"U+024F", "U+024E">>, <<"U+0250", "U+2C6F">>, <<"U+0251", "U+2C6D">>,
     <<"U+0252", "U+2C70">>, <<"U+0253", "U+0181">>, <<"U+0254", "U+0186">>,
     <<"U+0256", "U+0189">>, <<"U+0257", "U+018A">>, <<"U+0259", "U+018F">>,
     <<"U+025B", "U+0190">>, <<"U+025C", "U+A7AB">>, <<"U+0260", "U+0193">>,
     <<"U+0261", "U+A7AC">>, <<"U+0263", "U+0194">>, <<"U+0264", "U+A7CB">>,
     <<"U+0265", "U+A78D">>, <<"U+0266", "U+A7AA">>, <<"U+0268", "U+0197">>,
     <<"U+0269", "U+0196">>, <<"U+026A", "U+A7AE">>, <<"U+026B", "U+2C62">>,
     <<"U+026C", "U+A7AD">>, <<"U+026F", "U+019C">>, <<"U+0271", "U+2C6E">>,
     <<"U+0272", "U+019D">>, <<"U+0275", "U+019F">>, <<"U+027D", "U+2C64">>,
     <<"U+0280", "U+01A6">>, <<"U+0282", "U+A7C5">>, <<"U+0283", "U+01A9">>,
     <<"U+0287", "U+A7B1">>, <<"U+0288", "U+01AE">>, <<"U+0289", "U+0244">>,
     <<"U+028A", "U+01B1">>, <<"U+028B", "U+01B2">>, <<"U+028C", "U+0245">>,
     <<"U+0292", "U+01B7">>, <<"U+029D", "U+A7B2">>, <<"U+029E", "U+A7B0">>,
     <<"U+0345", "U+0399">>, <<"U+0371", "U+0370">>, <<"U+0373", "U+0372">>,
     <<"U+0377", "U+0376">>, <<"U+037B", "U+03FD">>, <<"U+037C", "U+03FE">>,
     <<"U+037D", "U+03FF">>, <<"U+0390", "U+0399", "U+0308", "U+0301">>,
     <<"U+03AC", "U+0386">>, <<"U+03AD", "U+0388">>, <<"U+03AE", "U+0389">>,
     <<"U+03AF", "U+038A">>, <<"U+03B0", "U+03A5", "U+0308", "U+0301">>,
     <<"U+03B1", "U+0391">>, <<"U+03B2", "U+0392">>, <<"U+03B3", "U+0393">>,
     <<"U+03B4", "U+0394">>, <<"U+03B5", "U+0395">>, <<"U+03B6", "U+0396">>,
     <<"U+03B7", "U+0397">>, <<"U+03B8", "U+0398">>, <<"U+03B9", "U+0399">>,
     <<"U+03BA", "U+039A">>, <<"U+03BB", "U+039B">>, <<"U+03BC", "U+039C">>,
     <<"U+03BD", "U+039D">>, <<"U+03BE", "U+039E">>, <<"U+03BF", "U+039F">>,
     <<"U+03C0", "U+03A0">>, <<"U+03C1", "U+03A1">>, <<"U+03C2", "U+03A3">>,
     <<"U+03C3", "U+03A3">>, <<"U+03C4", "U+03A4">>, <<"U+03C5", "U+03A5">>,
     <<"U+03C6", "U+03A6">>, <<"U+03C7", "U+03A7">>, <<"U+03C8", "U+03A8">>,
     <<"U+03C9", "U+03A9">>, <<"U+03CA", "U+03AA">>, <<"U+03CB", "U+03AB">>,
     <<"U+03CC", "U+038C">>, <<"U+03CD", "U+038E">>, <<"U+03CE", "U+038F">>,
     <<"U+03D0", "U+0392">>, <<"U+03D1", "U+0398">>, <<"U+03D5", "U+03A6">>,
     <<"U+03D6", "U+03A0">>, <<"U+03D7", "U+03CF">>, <<"U+03D9", "U+03D8">>,
     <<"U+03DB", "U+03DA">>, <<"U+03DD", "U+03DC">>, <<"U+03DF", "U+03DE">>,
     <<"U+03E1", "U+03E0">>, <<"U+03E3", "U+03E2">>, <<"U+03E5", "U+03E4">>,
     <<"U+03E7", "U+03E6">>, <<"U+03E9", "U+03E8">>, <<"U+03EB", "U+03EA">>,
     <<"U+03ED", "U+03EC">>, <<"U+03EF", "U+03EE">>, <<"U+03F0", "U+039A">>,
     <<"U+03F1", "U+03A1">>, <<"U+03F2", "U+03F9">>, <<"U+03F3", "U+037F">>,
     <<"U+03F5", "U+0395">>, <<"U+03F8", "U+03F7">>, <<"U+03FB", "U+03FA">>,
     <<"U+0430", "U+0410">>, <<"U+0431", "U+0411">>, <<"U+0432", "U+0412">>,
     <<"U+0433", "U+0413">>, <<"U+0434", "U+0414">>, <<"U+0435", "U+0415">>,
     <<"U+0436", "U+0416">>, <<"U+0437", "U+0417">>, <<"U+0438", "U+0418">>,
     <<"U+0439", "U+0419">>, <<"U+043A", "U+041A">>, <<"U+043B", "U+041B">>,
     <<"U+043C", "U+041C">>, <<"U+043D", "U+041D">>, <<"U+043E", "U+041E">>,
     <<"U+043F", "U+041F">>, <<"U+0440", "U+0420">>, <<"U+0441", "U+0421">>,
     <<"U+0442", "U+0422">>, <<"U+0443", "U+0423">>, <<"U+0444", "U+0424">>,
     <<"U+0445", "U+0425">>, <<"U+0446", "U+0426">>, <<"U+0447", "U+0427">>,
     <<"U+0448", "U+0428">>, <<"U+0449", "U+0429">>, <<"U+044A", "U+042A">>,
     <<"U+044B", "U+042B">>, <<"U+044C", "U+042C">>, <<"U+044D", "U+042D">>,
     <<"U+044E", "U+042E">>, <<"U+044F", "U+042F">>, <<"U+0450", "U+0400">>,
     <<"U+0451", "U+0401">>, <<"U+0452", "U+0402">>, <<"U+0453", "U+0403">>,
     <<"U+0454", "U+0404">>, <<"U+0455", "U+0405">>, <<"U+0456", "U+0406">>,
     <<"U+0457", "U+0407">>, <<"U+0458", "U+0408">>, <<"U+0459", "U+0409">>,
     <<"U+045A", "U+040A">>, <<"U+045B", "U+040B">>, <<"U+045C", "U+040C">>,
     <<"U+045D", "U+040D">>, <<"U+045E", "U+040E">>, <<"U+045F", "U+040F">>,
     <<"U+0461", "U+0460">>, <<"U+0463", "U+0462">>, <<"U+0465", "U+0464">>,
     <<"U+0467", "U+0466">>, <<"U+0469", "U+0468">>, <<"U+046B", "U+046A">>,
     <<"U+046D", "U+046C">>, <<"U+046F", "U+046E">>, <<"U+0471", "U+0470">>,
     <<"U+0473", "U+0472">>, <<"U+0475", "U+0474">>, <<"U+0477", "U+0476">>,
     <<"U+0479", "U+0478">>, <<"U+047B", "U+047A">>, <<"U+047D", "U+047C">>,
     <<"U+047F", "U+047E">>, <<"U+0481", "U+0480">>, <<"U+048B", "U+048A">>,
     <<"U+048D", "U+048C">>, <<"U+048F", "U+048E">>, <<"U+0491", "U+0490">>,
     <<"U+0493", "U+0492">>, <<"U+0495", "U+0494">>, <<"U+0497", "U+0496">>,
     <<"U+0499", "U+0498">>, <<"U+049B", "U+049A">>, <<"U+049D", "U+049C">>,
     <<"U+049F", "U+049E">>, <<"U+04A1", "U+04A0">>, <<"U+04A3", "U+04A2">>,
     <<"U+04A5", "U+04A4">>, <<"U+04A7", "U+04A6">>, <<"U+04A9", "U+04A8">>,
     <<"U+04AB", "U+04AA">>, <<"U+04AD", "U+04AC">>, <<"U+04AF", "U+04AE">>,
     <<"U+04B1", "U+04B0">>, <<"U+04B3", "U+04B2">>, <<"U+04B5", "U+04B4">>,
     <<"U+04B7", "U+04B6">>, <<"U+04B9", "U+04B8">>, <<"U+04BB", "U+04BA">>,
     <<"U+04BD", "U+04BC">>, <<"U+04BF", "U+04BE">>, <<"U+04C2", "U+04C1">>,
     <<"U+04C4", "U+04C3">>, <<"U+04C6", "U+04C5">>, <<"U+04C8", "U+04C7">>,
     <<"U+04CA", "U+04C9">>, <<"U+04CC", "U+04CB">>, <<"U+04CE", "U+04CD">>,
     <<"U+04CF", "U+04C0">>, <<"U+04D1", "U+04D0">>, <<"U+04D3", "U+04D2">>,
     <<"U+04D5", "U+04D4">>, <<"U+04D7", "U+04D6">>, <<"U+04D9", "U+04D8">>,
     <<"U+04DB", "U+04DA">>, <<"U+04DD", "U+04DC">>, <<"U+04DF", "U+04DE">>,
     <<"U+04E1", "U+04E0">>, <<"U+04E3", "U+04E2">>, <<"U+04E5", "U+04E4">>,
     <<"U+04E7", "U+04E6">>, <<"U+04E9", "U+04E8">>, <<"U+04EB", "U+04EA">>,
     <<"U+04ED", "U+04EC">>, <<"U+04EF", "U+04EE">>, <<"U+04F1", "U+04F0">>,
     <<"U+04F3", "U+04F2">>, <<"U+04F5", "U+04F4">>, <<"U+04F7", "U+04F6">>,
     <<"U+04F9", "U+04F8">>, <<"U+04FB", "U+04FA">>, <<"U+04FD", "U+04FC">>,
     <<"U+04FF", "U+04FE">>, <<"U+0501", "U+0500">>, <<"U+0503", "U+0502">>,
     <<"U+0505", "U+0504">>, <<"U+0507", "U+0506">>, <<"U+0509", "U+0508">>,
     <<"U+050B", "U+050A">>, <<"U+050D", "U+050C">>, <<"U+050F", "U+050E">>,
     <<"U+0511", "U+0510">>, <<"U+0513", "U+0512">>, <<"U+0515", "U+0514">>,
     <<"U+0517", "U+0516">>, <<"U+0519", "U+0518">>, <<"U+051B", "U+051A">>,
     <<"U+051D", "U+051C">>, <<"U+051F", "U+051E">>, <<"U+0521", "U+0520">>,
     <<"U+0523", "U+0522">>, <<"U+0525", "U+0524">>, <<"U+0527", "U+0526">>,
     <<"U+0529", "U+0528">>, <<"U+052B", "U+052A">>, <<"U+052D", "U+052C">>,
     <<"U+052F", "U+052E">>, <<"U+0561", "U+0531">>, <<"U+0562", "U+0532">>,
     <<"U+0563", "U+0533">>, <<"U+0564", "U+0534">>, <<"U+0565", "U+0535">>,
     <<"U+0566", "U+0536">>, <<"U+0567", "U+0537">>, <<"U+0568", "U+0538">>,
     <<"U+0569", "U+0539">>, <<"U+056A", "U+053A">>, <<"U+056B", "U+053B">>,
     <<"U+056C", "U+053C">>, <<"U+056D", "U+053D">>, <<"U+056E", "U+053E">>,
     <<"U+056F", "U+053F">>, <<"U+0570", "U+0540">>, <<"U+0571", "U+0541">>,
     <<"U+0572", "U+0542">>, <<"U+0573", "U+0543">>, <<"U+0574", "U+0544">>,
     <<"U+0575", "U+0545">>, <<"U+0576", "U+0546">>, <<"U+0577", "U+0547">>,
     <<"U+0578", "U+0548">>, <<"U+0579", "U+0549">>, <<"U+057A", "U+054A">>,
     <<"U+057B", "U+054B">>, <<"U+057C", "U+054C">>, <<"U+057D", "U+054D">>,
     <<"U+057E", "U+054E">>, <<"U+057F", "U+054F">>, <<"U+0580", "U+0550">>,
     <<"U+0581", "U+0551">>, <<"U+0582", "U+0552">>, <<"U+0583", "U+0553">>,
     <<"U+0584", "U+0554">>, <<"U+0585", "U+0555">>, <<"U+0586", "U+0556">>,
     <<"U+0587", "U+0535", "U+0552">>, <<"U+10D0", "U+1C90">>,
     <<"U+10D1", "U+1C91">>, <<"U+10D2", "U+1C92">>, <<"U+10D3", "U+1C93">>,
     <<"U+10D4", "U+1C94">>, <<"U+10D5", "U+1C95">>, <<"U+10D6", "U+1C96">>,
     <<"U+10D7", "U+1C97">>, <<"U+10D8", "U+1C98">>, <<"U+10D9", "U+1C99">>,
     <<"U+10DA", "U+1C9A">>, <<"U+10DB", "U+1C9B">>, <<"U+10DC", "U+1C9C">>,
     <<"U+10DD", "U+1C9D">>, <<"U+10DE", "U+1C9E">>, <<"U+10DF", "U+1C9F">>,
     <<"U+10E0", "U+1CA0">>, <<"U+10E1", "U+1CA1">>, <<"U+10E2", "U+1CA2">>,
     <<"U+10E3", "U+1CA3">>, <<"U+10E4", "U+1CA4">>, <<"U+10E5", "U+1CA5">>,
     <<"U+10E6", "U+1CA6">>, <<"U+10E7", "U+1CA7">>, <<"U+10E8", "U+1CA8">>,
     <<"U+10E9", "U+1CA9">>, <<"U+10EA", "U+1CAA">>, <<"U+10EB", "U+1CAB">>,
     <<"U+10EC", "U+1CAC">>, <<"U+10ED", "U+1CAD">>, <<"U+10EE", "U+1CAE">>,
     <<"U+10EF", "U+1CAF">>, <<"U+10F0", "U+1CB0">>, <<"U+10F1", "U+1CB1">>,
     <<"U+10F2", "U+1CB2">>, <<"U+10F3", "U+1CB3">>, <<"U+10F4", "U+1CB4">>,
     <<"U+10F5", "U+1CB5">>, <<"U+10F6", "U+1CB6">>, <<"U+10F7", "U+1CB7">>,
     <<"U+10F8", "U+1CB8">>, <<"U+10F9", "U+1CB9">>, <<"U+10FA", "U+1CBA">>,
     <<"U+10FD", "U+1CBD">>, <<"U+10FE", "U+1CBE">>, <<"U+10FF", "U+1CBF">>,
     <<"U+13F8", "U+13F0">>, <<"U+13F9", "U+13F1">>, <<"U+13FA", "U+13F2">>,
     <<"U+13FB", "U+13F3">>, <<"U+13FC", "U+13F4">>, <<"U+13FD", "U+13F5">>,
     <<"U+1C80", "U+0412">>, <<"U+1C81", "U+0414">>, <<"U+1C82", "U+041E">>,
     <<"U+1C83", "U+0421">>, <<"U+1C84", "U+0422">>, <<"U+1C85", "U+0422">>,
     <<"U+1C86", "U+042A">>, <<"U+1C87", "U+0462">>, <<"U+1C88", "U+A64A">>,
     <<"U+1C8A", "U+1C89">>, <<"U+1D79", "U+A77D">>, <<"U+1D7D", "U+2C63">>,
     <<"U+1D8E", "U+A7C6">>, <<"U+1E01", "U+1E00">>, <<"U+1E03", "U+1E02">>,
     <<"U+1E05", "U+1E04">>, <<"U+1E07", "U+1E06">>, <<"U+1E09", "U+1E08">>,
     <<"U+1E0B", "U+1E0A">>, <<"U+1E0D", "U+1E0C">>, <<"U+1E0F", "U+1E0E">>,
     <<"U+1E11", "U+1E10">>, <<"U+1E13", "U+1E12">>, <<"U+1E15", "U+1E14">>,
     <<"U+1E17", "U+1E16">>, <<"U+1E19", "U+1E18">>, <<"U+1E1B", "U+1E1A">>,
     <<"U+1E1D", "U+1E1C">>, <<"U+1E1F", "U+1E1E">>, <<"U+1E21", "U+1E20">>,
     <<"U+1E23", "U+1E22">>, <<"U+1E25", "U+1E24">>, <<"U+1E27", "U+1E26">>,
     <<"U+1E29", "U+1E28">>, <<"U+1E2B", "U+1E2A">>, <<"U+1E2D", "U+1E2C">>,
     <<"U+1E2F", "U+1E2E">>, <<"U+1E31", "U+1E30">>, <<"U+1E33", "U+1E32">>,
     <<"U+1E35", "U+1E34">>, <<"U+1E37", "U+1E36">>, <<"U+1E39", "U+1E38">>,
     <<"U+1E3B", "U+1E3A">>, <<"U+1E3D", "U+1E3C">>, <<"U+1E3F", "U+1E3E">>,
     <<"U+1E41", "U+1E40">>, <<"U+1E43", "U+1E42">>, <<"U+1E45", "U+1E44">>,
     <<"U+1E47", "U+1E46">>, <<"U+1E49", "U+1E48">>, <<"U+1E4B", "U+1E4A">>,
     <<"U+1E4D", "U+1E4C">>, <<"U+1E4F", "U+1E4E">>, <<"U+1E51", "U+1E50">>,
     <<"U+1E53", "U+1E52">>, <<"U+1E55", "U+1E54">>, <<"U+1E57", "U+1E56">>,
     <<"U+1E59", "U+1E58">>, <<"U+1E5B", "U+1E5A">>, <<"U+1E5D", "U+1E5C">>,
     <<"U+1E5F", "U+1E5E">>, <<"U+1E61", "U+1E60">>, <<"U+1E63", "U+1E62">>,
     <<"U+1E65", "U+1E64">>, <<"U+1E67", "U+1E66">>, <<"U+1E69", "U+1E68">>,
     <<"U+1E6B", "U+1E6A">>, <<"U+1E6D", "U+1E6C">>, <<"U+1E6F", "U+1E6E">>,
     <<"U+1E71", "U+1E70">>, <<"U+1E73", "U+1E72">>, <<"U+1E75", "U+1E74">>,
     <<"U+1E77", "U+1E76">>, <<"U+1E79", "U+1E78">>, <<"U+1E7B", "U+1E7A">>,
     <<"U+1E7D", "U+1E7C">>, <<"U+1E7F", "U+1E7E">>, <<"U+1E81", "U+1E80">>,
     <<"U+1E83", "U+1E82">>, <<"U+1E85", "U+1E84">>, <<"U+1E87", "U+1E86">>,
     <<"U+1E89", "U+1E88">>, <<"U+1E8B", "U+1E8A">>, <<"U+1E8D", "U+1E8C">>,
     <<"U+1E8F", "U+1E8E">>, <<"U+1E91", "U+1E90">>, <<"U+1E93", "U+1E92">>,
     <<"U+1E95", "U+1E94">>, <<"U+1E96", "H", "U+0331">>,
     <<"U+1E97", "T", "U+0308">>, <<"U+1E98", "W", "U+030A">>,
     <<"U+1E99", "Y", "U+030A">>, <<"U+1E9A", "A", "U+02BE">>,
     <<"U+1E9B", "U+1E60">>, <<"U+1EA1", "U+1EA0">>, <<"U+1EA3", "U+1EA2">>,
     <<"U+1EA5", "U+1EA4">>, <<"U+1EA7", "U+1EA6">>, <<"U+1EA9", "U+1EA8">>,
     <<"U+1EAB", "U+1EAA">>, <<"U+1EAD", "U+1EAC">>, <<"U+1EAF", "U+1EAE">>,
     <<"U+1EB1", "U+1EB0">>, <<"U+1EB3", "U+1EB2">>, <<"U+1EB5", "U+1EB4">>,
     <<"U+1EB7", "U+1EB6">>, <<"U+1EB9", "U+1EB8">>, <<"U+1EBB", "U+1EBA">>,
     <<"U+1EBD", "U+1EBC">>, <<"U+1EBF", "U+1EBE">>, <<"U+1EC1", "U+1EC0">>,
     <<"U+1EC3", "U+1EC2">>, <<"U+1EC5", "U+1EC4">>, <<"U+1EC7", "U+1EC6">>,
     <<"U+1EC9", "U+1EC8">>, <<"U+1ECB", "U+1ECA">>, <<"U+1ECD", "U+1ECC">>,
     <<"U+1ECF", "U+1ECE">>, <<"U+1ED1", "U+1ED0">>, <<"U+1ED3", "U+1ED2">>,
     <<"U+1ED5", "U+1ED4">>, <<"U+1ED7", "U+1ED6">>, <<"U+1ED9", "U+1ED8">>,
     <<"U+1EDB", "U+1EDA">>, <<"U+1EDD", "U+1EDC">>, <<"U+1EDF", "U+1EDE">>,
     <<"U+1EE1", "U+1EE0">>, <<"U+1EE3", "U+1EE2">>, <<"U+1EE5", "U+1EE4">>,
     <<"U+1EE7", "U+1EE6">>, <<"U+1EE9", "U+1EE8">>, <<"U+1EEB", "U+1EEA">>,
     <<"U+1EED", "U+1EEC">>, <<"U+1EEF", "U+1EEE">>, <<"U+1EF1", "U+1EF0">>,
     <<"U+1EF3", "U+1EF2">>, <<"U+1EF5", "U+1EF4">>, <<"U+1EF7", "U+1EF6">>,
     <<"U+1EF9", "U+1EF8">>, <<"U+1EFB", "U+1EFA">>, <<"U+1EFD", "U+1EFC">>,
     <<"U+1EFF", "U+1EFE">>, <<"U+1F00", "U+1F08">>, <<"U+1F01", "U+1F09">>,
     <<"U+1F02", "U+1F0A">>, <<"U+1F03", "U+1F0B">>, <<"U+1F04", "U+1F0C">>,
     <<"U+1F05", "U+1F0D">>, <<"U+1F06", "U+1F0E">>, <<"U+1F07", "U+1F0F">>,
     <<"U+1F10", "U+1F18">>, <<"U+1F11", "U+1F19">>, <<"U+1F12", "U+1F1A">>,
     <<"U+1F13", "U+1F1B">>, <<"U+1F14", "U+1F1C">>, <<"U+1F15", "U+1F1D">>,
     <<"U+1F20", "U+1F28">>, <<"U+1F21", "U+1F29">>, <<"U+1F22", "U+1F2A">>,
     <<"U+1F23", "U+1F2B">>, <<"U+1F24", "U+1F2C">>, <<"U+1F25", "U+1F2D">>,
     <<"U+1F26", "U+1F2E">>, <<"U+1F27", "U+1F2F">>, <<"U+1F30", "U+1F38">>,
     <<"U+1F31", "U+1F39">>, <<"U+1F32", "U+1F3A">>, <<"U+1F33", "U+1F3B">>,
     <<"U+1F34", "U+1F3C">>, <<"U+1F35", "U+1F3D">>, <<"U+1F36", "U+1F3E">>,
     <<"U+1F37", "U+1F3F">>, <<"U+1F40", "U+1F48">>, <<"U+1F41", "U+1F49">>,
     <<"U+1F42", "U+1F4A">>, <<"U+1F43", "U+1F4B">>, <<"U+1F44", "U+1F4C">>,
     <<"U+1F45", "U+1F4D">>, <<"U+1F50", "U+03A5", "U+0313">>,
     <<"U+1F51", "U+1F59">>, <<"U+1F52", "U+03A5", "U+0313", "U+0300">>,
     <<"U+1F53", "U+1F5B">>, <<"U+1F54", "U+03A5", "U+0313", "U+0301">>,
     <<"U+1F55", "U+1F5D">>, <<"U+1F56", "U+03A5", "U+0313", "U+0342">>,
     <<"U+1F57", "U+1F5F">>, <<"U+1F60", "U+1F68">>, <<"U+1F61", "U+1F69">>,
     <<"U+1F62", "U+1F6A">>, <<"U+1F63", "U+1F6B">>, <<"U+1F64", "U+1F6C">>,
     <<"U+1F65", "U+1F6D">>, <<"U+1F66", "U+1F6E">>, <<"U+1F67", "U+1F6F">>,
     <<"U+1F70", "U+1FBA">>, <<"U+1F71", "U+1FBB">>, <<"U+1F72", "U+1FC8">>,
     <<"U+1F73", "U+1FC9">>, <<"U+1F74", "U+1FCA">>, <<"U+1F75", "U+1FCB">>,
     <<"U+1F76", "U+1FDA">>, <<"U+1F77", "U+1FDB">>, <<"U+1F78", "U+1FF8">>,
     <<"U+1F79", "U+1FF9">>, <<"U+1F7A", "U+1FEA">>, <<"U+1F7B", "U+1FEB">>,
     <<"U+1F7C", "U+1FFA">>, <<"U+1F7D", "U+1FFB">>,
     <<"U+1F80", "U+1F08", "U+0399">>, <<"U+1F81", "U+1F09", "U+0399">>,
     <<"U+1F82", "U+1F0A", "U+0399">>, <<"U+1F83", "U+1F0B", "U+0399">>,
     <<"U+1F84", "U+1F0C", "U+0399">>, <<"U+1F85", "U+1F0D", "U+0399">>,
     <<"U+1F86", "U+1F0E", "U+0399">>, <<"U+1F87", "U+1F0F", "U+0399">>,
     <<"U+1F88", "U+1F08", "U+0399">>, <<"U+1F89", "U+1F09", "U+0399">>,
     <<"U+1F8A", "U+1F0A", "U+0399">>, <<"U+1F8B", "U+1F0B", "U+0399">>,
     <<"U+1F8C", "U+1F0C", "U+0399">>, <<"U+1F8D", "U+1F0D", "U+0399">>,
     <<"U+1F8E", "U+1F0E", "U+0399">>, <<"U+1F8F", "U+1F0F", "U+0399">>,
     <<"U+1F90", "U+1F28", "U+0399">>, <<"U+1F91", "U+1F29", "U+0399">>,
     <<"U+1F92", "U+1F2A", "U+0399">>, <<"U+1F93", "U+1F2B", "U+0399">>,
     <<"U+1F94", "U+1F2C", "U+0399">>, <<"U+1F95", "U+1F2D", "U+0399">>,
     <<"U+1F96", "U+1F2E", "U+0399">>, <<"U+1F97", "U+1F2F", "U+0399">>,
     <<"U+1F98", "U+1F28", "U+0399">>, <<"U+1F99", "U+1F29", "U+0399">>,
     <<"U+1F9A", "U+1F2A", "U+0399">>, <<"U+1F9B", "U+1F2B", "U+0399">>,
     <<"U+1F9C", "U+1F2C", "U+0399">>, <<"U+1F9D", "U+1F2D", "U+0399">>,
     <<"U+1F9E", "U+1F2E", "U+0399">>, <<"U+1F9F", "U+1F2F", "U+0399">>,
     <<"U+1FA0", "U+1F68", "U+0399">>, <<"U+1FA1", "U+1F69", "U+0399">>,
     <<"U+1FA2", "U+1F6A", "U+0399">>, <<"U+1FA3", "U+1F6B", "U+0399">>,
     <<"U+1FA4", "U+1F6C", "U+0399">>, <<"U+1FA5", "U+1F6D", "U+0399">>,
     <<"U+1FA6", "U+1F6E", "U+0399">>, <<"U+1FA7", "U+1F6F", "U+0399">>,
     <<"U+1FA8", "U+1F68", "U+0399">>, <<"U+1FA9", "U+1F69", "U+0399">>,
     <<"U+1FAA", "U+1F6A", "U+0399">>, <<"U+1FAB", "U+1F6B", "U+0399">>,
     <<"U+1FAC", "U+1F6C", "U+0399">>, <<"U+1FAD", "U+1F6D", "U+0399">>,
     <<"U+1FAE", "U+1F6E", "U+0399">>, <<"U+1FAF", "U+1F6F", "U+0399">>,
     <<"U+1FB0", "U+1FB8">>, <<"U+1FB1", "U+1FB9">>,
     <<"U+1FB2", "U+1FBA", "U+0399">>, <<"U+1FB3", "U+0391", "U+0399">>,
     <<"U+1FB4", "U+0386", "U+0399">>, <<"U+1FB6", "U+0391", "U+0342">>,
     <<"U+1FB7", "U+0391", "U+0342", "U+0399">>,
     <<"U+1FBC", "U+0391", "U+0399">>, <<"U+1FBE", "U+0399">>,
     <<"U+1FC2", "U+1FCA", "U+0399">>, <<"U+1FC3", "U+0397", "U+0399">>,
     <<"U+1FC4", "U+0389", "U+0399">>, <<"U+1FC6", "U+0397", "U+0342">>,
     <<"U+1FC7", "U+0397", "U+0342", "U+0399">>,
     <<"U+1FCC", "U+0397", "U+0399">>, <<"U+1FD0", "U+1FD8">>,
     <<"U+1FD1", "U+1FD9">>, <<"U+1FD2", "U+0399", "U+0308", "U+0300">>,
     <<"U+1FD3", "U+0399", "U+0308", "U+0301">>,
     <<"U+1FD6", "U+0399", "U+0342">>,
     <<"U+1FD7", "U+0399", "U+0308", "U+0342">>, <<"U+1FE0", "U+1FE8">>,
     <<"U+1FE1", "U+1FE9">>, <<"U+1FE2", "U+03A5", "U+0308", "U+0300">>,
     <<"U+1FE3", "U+03A5", "U+0308", "U+0301">>,
     <<"U+1FE4", "U+03A1", "U+0313">>, <<"U+1FE5", "U+1FEC">>,
     <<"U+1FE6", "U+03A5", "U+0342">>,
     <<"U+1FE7", "U+03A5", "U+0308", "U+0342">>,
     <<"U+1FF2", "U+1FFA", "U+0399">>, <<"U+1FF3", "U+03A9", "U+0399">>,
     <<"U+1FF4", "U+038F", "U+0399">>, <<"U+1FF6", "U+03A9", "U+0342">>,
     <<"U+1FF7", "U+03A9", "U+0342", "U+0399">>,
     <<"U+1FFC", "U+03A9", "U+0399">>, <<"U+214E", "U+2132">>,
     <<"U+2170", "U+2160">>, <<"U+2171", "U+2161">>, <<"U+2172", "U+2162">>,
     <<"U+2173", "U+2163">>, <<"U+2174", "U+2164">>, <<"U+2175", "U+2165">>,
     <<"U+2176", "U+2166">>, <<"U+2177", "U+2167">>, <<"U+2178", "U+2168">>,
     <<"U+2179", "U+2169">>, <<"U+217A", "U+216A">>, <<"U+217B", "U+216B">>,
     <<"U+217C", "U+216C">>, <<"U+217D", "U+216D">>, <<"U+217E", "U+216E">>,
     <<"U+217F", "U+216F">>, <<"U+2184", "U+2183">>, <<"U+24D0", "U+24B6">>,
     <<"U+24D1", "U+24B7">>, <<"U+24D2", "U+24B8">>, <<"U+24D3", "U+24B9">>,
     <<"U+24D4", "U+24BA">>, <<"U+24D5", "U+24BB">>, <<"U+24D6", "U+24BC">>,
     <<"U+24D7", "U+24BD">>, <<"U+24D8", "U+24BE">>, <<"U+24D9", "U+24BF">>,
     <<"U+24DA", "U+24C0">>, <<"U+24DB", "U+24C1">>, <<"U+24DC", "U+24C2">>,
     <<"U+24DD", "U+24C3">>, <<"U+24DE", "U+24C4">>, <<"U+24DF", "U+24C5">>,
     <<"U+24E0", "U+24C6">>, <<"U+24E1", "U+24C7">>, <<"U+24E2", "U+24C8">>,
     <<"U+24E3", "U+24C9">>, <<"U+24E4", "U+24CA">>, <<"U+24E5", "U+24CB">>,
     <<"U+24E6", "U+24CC">>, <<"U+24E7", "U+24CD">>, <<"U+24E8", "U+24CE">>,
     <<"U+24E9", "U+24CF">>, <<"U+2C30", "U+2C00">>, <<"U+2C31", "U+2C01">>,
     <<"U+2C32", "U+2C02">>, <<"U+2C33", "U+2C03">>, <<"U+2C34", "U+2C04">>,
     <<"U+2C35", "U+2C05">>, <<"U+2C36", "U+2C06">>, <<"U+2C37", "U+2C07">>,
     <<"U+2C38", "U+2C08">>, <<"U+2C39", "U+2C09">>, <<"U+2C3A", "U+2C0A">>,
     <<"U+2C3B", "U+2C0B">>, <<"U+2C3C", "U+2C0C">>, <<"U+2C3D", "U+2C0D">>,
     <<"U+2C3E", "U+2C0E">>, <<"U+2C3F", "U+2C0F">>, <<"U+2C40", "U+2C10">>,
     <<"U+2C41", "U+2C11">>, <<"U+2C42", "U+2C12">>, <<"U+2C43", "U+2C13">>,
     <<"U+2C44", "U+2C14">>, <<"U+2C45", "U+2C15">>, <<"U+2C46", "U+2C16">>,
     <<"U+2C47", "U+2C17">>, <<"U+2C48", "U+2C18">>, <<"U+2C49", "U+2C19">>,
     <<"U+2C4A", "U+2C1A">>, <<"U+2C4B", "U+2C1B">>, <<"U+2C4C", "U+2C1C">>,
     <<"U+2C4D", "U+2C1D">>, <<"U+2C4E", "U+2C1E">>, <<"U+2C4F", "U+2C1F">>,
     <<"U+2C50", "U+2C20">>, <<"U+2C51", "U+2C21">>, <<"U+2C52", "U+2C22">>,
     <<"U+2C53", "U+2C23">>, <<"U+2C54", "U+2C24">>, <<"U+2C55", "U+2C25">>,
     <<"U+2C56", "U+2C26">>, <<"U+2C57", "U+2C27">>, <<"U+2C58", "U+2C28">>,
     <<"U+2C59", "U+2C29">>, <<"U+2C5A", "U+2C2A">>, <<"U+2C5B", "U+2C2B">>,
     <<"U+2C5C", "U+2C2C">>, <<"U+2C5D", "U+2C2D">>, <<"U+2C5E", "U+2C2E">>,
     <<"U+2C5F", "U+2C2F">>, <<"U+2C61", "U+2C60">>, <<"U+2C65", "U+023A">>,
     <<"U+2C66", "U+023E">>, <<"U+2C68", "U+2C67">>, <<"U+2C6A", "U+2C69">>,
     <<"U+2C6C", "U+2C6B">>, <<"U+2C73", "U+2C72">>, <<"U+2C76", "U+2C75">>,
     <<"U+2C81", "U+2C80">>, <<"U+2C83", "U+2C82">>, <<"U+2C85", "U+2C84">>,
     <<"U+2C87", "U+2C86">>, <<"U+2C89", "U+2C88">>, <<"U+2C8B", "U+2C8A">>,
     <<"U+2C8D", "U+2C8C">>, <<"U+2C8F", "U+2C8E">>, <<"U+2C91", "U+2C90">>,
     <<"U+2C93", "U+2C92">>, <<"U+2C95", "U+2C94">>, <<"U+2C97", "U+2C96">>,
     <<"U+2C99", "U+2C98">>, <<"U+2C9B", "U+2C9A">>, <<"U+2C9D", "U+2C9C">>,
     <<"U+2C9F", "U+2C9E">>, <<"U+2CA1", "U+2CA0">>, <<"U+2CA3", "U+2CA2">>,
     <<"U+2CA5", "U+2CA4">>, <<"U+2CA7", "U+2CA6">>, <<"U+2CA9", "U+2CA8">>,
     <<"U+2CAB", "U+2CAA">>, <<"U+2CAD", "U+2CAC">>, <<"U+2CAF", "U+2CAE">>,
     <<"U+2CB1", "U+2CB0">>, <<"U+2CB3", "U+2CB2">>, <<"U+2CB5", "U+2CB4">>,
     <<"U+2CB7", "U+2CB6">>, <<"U+2CB9", "U+2CB8">>, <<"U+2CBB", "U+2CBA">>,
     <<"U+2CBD", "U+2CBC">>, <<"U+2CBF", "U+2CBE">>, <<"U+2CC1", "U+2CC0">>,
     <<"U+2CC3", "U+2CC2">>, <<"U+2CC5", "U+2CC4">>, <<"U+2CC7", "U+2CC6">>,
     <<"U+2CC9", "U+2CC8">>, <<"U+2CCB", "U+2CCA">>, <<"U+2CCD", "U+2CCC">>,
     <<"U+2CCF", "U+2CCE">>, <<"U+2CD1", "U+2CD0">>, <<"U+2CD3", "U+2CD2">>,
     <<"U+2CD5", "U+2CD4">>, <<"U+2CD7", "U+2CD6">>, <<"U+2CD9", "U+2CD8">>,
     <<"U+2CDB", "U+2CDA">>, <<"U+2CDD", "U+2CDC">>, <<"U+2CDF", "U+2CDE">>,
     <<"U+2CE1", "U+2CE0">>, <<"U+2CE3", "U+2CE2">>, <<"U+2CEC", "U+2CEB">>,
     <<"U+2CEE", "U+2CED">>, <<"U+2CF3", "U+2CF2">>, <<"U+2D00", "U+10A0">>,
     <<"U+2D01", "U+10A1">>, <<"U+2D02", "U+10A2">>, <<"U+2D03", "U+10A3">>,
     <<"U+2D04", "U+10A4">>, <<"U+2D05", "U+10A5">>, <<"U+2D06", "U+10A6">>,
     <<"U+2D07", "U+10A7">>, <<"U+2D08", "U+10A8">>, <<"U+2D09", "U+10A9">>,
     <<"U+2D0A", "U+10AA">>, <<"U+2D0B", "U+10AB">>, <<"U+2D0C", "U+10AC">>,
     <<"U+2D0D", "U+10AD">>, <<"U+2D0E", "U+10AE">>, <<"U+2D0F", "U+10AF">>,
     <<"U+2D10", "U+10B0">>, <<"U+2D11", "U+10B1">>, <<"U+2D12", "U+10B2">>,
     <<"U+2D13", "U+10B3">>, <<"U+2D14", "U+10B4">>, <<"U+2D15", "U+10B5">>,
     <<"U+2D16", "U+10B6">>, <<"U+2D17", "U+10B7">>, <<"U+2D18", "U+10B8">>,
     <<"U+2D19", "U+10B9">>, <<"U+2D1A", "U+10BA">>, <<"U+2D1B", "U+10BB">>,
     <<"U+2D1C", "U+10BC">>, <<"U+2D1D", "U+10BD">>, <<"U+2D1E", "U+10BE">>,
     <<"U+2D1F", "U+10BF">>, <<"U+2D20", "U+10C0">>, <<"U+2D21", "U+10C1">>,
     <<"U+2D22", "U+10C2">>, <<"U+2D23", "U+10C3">>, <<"U+2D24", "U+10C4">>,
     <<"U+2D25", "U+10C5">>, <<"U+2D27", "U+10C7">>, <<"U+2D2D", "U+10CD">>,
     <<"U+A641", "U+A640">>, <<"U+A643", "U+A642">>, <<"U+A645", "U+A644">>,
     <<"U+A647", "U+A646">>, <<"U+A649", "U+A648">>, <<"U+A64B", "U+A64A">>,
     <<"U+A64D", "U+A64C">>, <<"U+A64F", "U+A64E">>, <<"U+A651", "U+A650">>,
     <<"U+A653", "U+A652">>, <<"U+A655", "U+A654">>, <<"U+A657", "U+A656">>,
     <<"U+A659", "U+A658">>, <<"U+A65B", "U+A65A">>, <<"U+A65D", "U+A65C">>,
     <<"U+A65F", "U+A65E">>, <<"U+A661", "U+A660">>, <<"U+A663", "U+A662">>,
     <<"U+A665", "U+A664">>, <<"U+A667", "U+A666">>, <<"U+A669", "U+A668">>,
     <<"U+A66B", "U+A66A">>, <<"U+A66D", "U+A66C">>, <<"U+A681", "U+A680">>,
     <<"U+A683", "U+A682">>, <<"U+A685", "U+A684">>, <<"U+A687", "U+A686">>,
     <<"U+A689", "U+A688">>, <<"U+A68B", "U+A68A">>, <<"U+A68D", "U+A68C">>,
     <<"U+A68F", "U+A68E">>, <<"U+A691", "U+A690">>, <<"U+A693", "U+A692">>,
     <<"U+A695", "U+A694">>, <<"U+A697", "U+A696">>, <<"U+A699", "U+A698">>,
     <<"U+A69B", "U+A69A">>, <<"U+A723", "U+A722">>, <<"U+A725", "U+A724">>,
     <<"U+A727", "U+A726">>, <<"U+A729", "U+A728">>, <<"U+A72B", "U+A72A">>,
     <<"U+A72D", "U+A72C">>, <<"U+A72F", "U+A72E">>, <<"U+A733", "U+A732">>,
     <<"U+A735", "U+A734">>, <<"U+A737", "U+A736">>, <<"U+A739", "U+A738">>,
     <<"U+A73B", "U+A73A">>, <<"U+A73D", "U+A73C">>, <<"U+A73F", "U+A73E">>,
     <<"U+A741", "U+A740">>, <<"U+A743", "U+A742">>, <<"U+A745", "U+A744">>,
     <<"U+A747", "U+A746">>, <<"U+A749", "U+A748">>, <<"U+A74B", "U+A74A">>,
     <<"U+A74D", "U+A74C">>, <<"U+A74F", "U+A74E">>, <<"U+A751", "U+A750">>,
     <<"U+A753", "U+A752">>, <<"U+A755", "U+A754">>, <<"U+A757", "U+A756">>,
     <<"U+A759", "U+A758">>, <<"U+A75B", "U+A75A">>, <<"U+A75D", "U+A75C">>,
     <<"U+A75F", "U+A75E">>, <<"U+A761", "U+A760">>, <<"U+A763", "U+A762">>,
     <<"U+A765", "U+A764">>, <<"U+A767", "U+A766">>, <<"U+A769", "U+A768">>,
     <<"U+A76B", "U+A76A">>, <<"U+A76D", "U+A76C">>, <<"U+A76F", "U+A76E">>,
     <<"U+A77A", "U+A779">>, <<"U+A77C", "U+A77B">>, <<"U+A77F", "U+A77E">>,
     <<"U+A781", "U+A780">>, <<"U+A783", "U+A782">>, <<"U+A785", "U+A784">>,
     <<"U+A787", "U+A786">>, <<"U+A78C", "U+A78B">>, <<"U+A791", "U+A790">>,
     <<"U+A793", "U+A792">>, <<"U+A794", "U+A7C4">>, <<"U+A797", "U+A796">>,
     <<"U+A799", "U+A798">>, <<"U+A79B", "U+A79A">>, <<"U+A79D", "U+A79C">>,
     <<"U+A79F", "U+A79E">>, <<"U+A7A1", "U+A7A0">>, <<"U+A7A3", "U+A7A2">>,
     <<"U+A7A5", "U+A7A4">>, <<"U+A7A7", "U+A7A6">>, <<"U+A7A9", "U+A7A8">>,
     <<"U+A7B5", "U+A7B4">>, <<"U+A7B7", "U+A7B6">>, <<"U+A7B9", "U+A7B8">>,
     <<"U+A7BB", "U+A7BA">>, <<"U+A7BD", "U+A7BC">>, <<"U+A7BF", "U+A7BE">>,
     <<"U+A7C1", "U+A7C0">>, <<"U+A7C3", "U+A7C2">>, <<"U+A7C8", "U+A7C7">>,
     <<"U+A7CA", "U+A7C9">>, <<"U+A7CD", "U+A7CC">>, <<"U+A7CF", "U+A7CE">>,
     <<"U+A7D1", "U+A7D0">>, <<"U+A7D3", "U+A7D2">>, <<"U+A7D5", "U+A7D4">>,
     <<"U+A7D7", "U+A7D6">>, <<"U+A7D9", "U+A7D8">>, <<"U+A7DB", "U+A7DA">>,
     <<"U+A7F6", "U+A7F5">>, <<"U+AB53", "U+A7B3">>, <<"U+AB70", "U+13A0">>,
     <<"U+AB71", "U+13A1">>, <<"U+AB72", "U+13A2">>, <<"U+AB73", "U+13A3">>,
     <<"U+AB74", "U+13A4">>, <<"U+AB75", "U+13A5">>, <<"U+AB76", "U+13A6">>,
     <<"U+AB77", "U+13A7">>, <<"U+AB78", "U+13A8">>, <<"U+AB79", "U+13A9">>,
     <<"U+AB7A", "U+13AA">>, <<"U+AB7B", "U+13AB">>, <<"U+AB7C", "U+13AC">>,
     <<"U+AB7D", "U+13AD">>, <<"U+AB7E", "U+13AE">>, <<"U+AB7F", "U+13AF">>,
     <<"U+AB80", "U+13B0">>, <<"U+AB81", "U+13B1">>, <<"U+AB82", "U+13B2">>,
     <<"U+AB83", "U+13B3">>, <<"U+AB84", "U+13B4">>, <<"U+AB85", "U+13B5">>,
     <<"U+AB86", "U+13B6">>, <<"U+AB87", "U+13B7">>, <<"U+AB88", "U+13B8">>,
     <<"U+AB89", "U+13B9">>, <<"U+AB8A", "U+13BA">>, <<"U+AB8B", "U+13BB">>,
     <<"U+AB8C", "U+13BC">>, <<"U+AB8D", "U+13BD">>, <<"U+AB8E", "U+13BE">>,
     <<"U+AB8F", "U+13BF">>, <<"U+AB90", "U+13C0">>, <<"U+AB91", "U+13C1">>,
     <<"U+AB92", "U+13C2">>, <<"U+AB93", "U+13C3">>, <<"U+AB94", "U+13C4">>,
     <<"U+AB95", "U+13C5">>, <<"U+AB96", "U+13C6">>, <<"U+AB97", "U+13C7">>,
     <<"U+AB98", "U+13C8">>, <<"U+AB99", "U+13C9">>, <<"U+AB9A", "U+13CA">>,
     <<"U+AB9B", "U+13CB">>, <<"U+AB9C", "U+13CC">>, <<"U+AB9D", "U+13CD">>,
     <<"U+AB9E", "U+13CE">>, <<"U+AB9F", "U+13CF">>, <<"U+ABA0", "U+13D0">>,
     <<"U+ABA1", "U+13D1">>, <<"U+ABA2", "U+13D2">>, <<"U+ABA3", "U+13D3">>,
     <<"U+ABA4", "U+13D4">>, <<"U+ABA5", "U+13D5">>, <<"U+ABA6", "U+13D6">>,
     <<"U+ABA7", "U+13D7">>, <<"U+ABA8", "U+13D8">>, <<"U+ABA9", "U+13D9">>,
     <<"U+ABAA", "U+13DA">>, <<"U+ABAB", "U+13DB">>, <<"U+ABAC", "U+13DC">>,
     <<"U+ABAD", "U+13DD">>, <<"U+ABAE", "U+13DE">>, <<"U+ABAF", "U+13DF">>,
     <<"U+ABB0", "U+13E0">>, <<"U+ABB1", "U+13E1">>, <<"U+ABB2", "U+13E2">>,
     <<"U+ABB3", "U+13E3">>, <<"U+ABB4", "U+13E4">>, <<"U+ABB5", "U+13E5">>,
     <<"U+ABB6", "U+13E6">>, <<"U+ABB7", "U+13E7">>, <<"U+ABB8", "U+13E8">>,
     <<"U+ABB9", "U+13E9">>, <<"U+ABBA", "U+13EA">>, <<"U+ABBB", "U+13EB">>,
     <<"U+ABBC", "U+13EC">>, <<"U+ABBD", "U+13ED">>, <<"U+ABBE", "U+13EE">>,
     <<"U+ABBF", "U+13EF">>, <<"U+FB00", "F", "F">>, <<"U+FB01", "F", "I">>,
     <<"U+FB02", "F", "L">>, <<"U+FB03", "F", "F", "I">>,
     <<"U+FB04", "F", "F", "L">>, <<"U+FB05", "S", "T">>,
     <<"U+FB06", "S", "T">>, <<"U+FB13", "U+0544", "U+0546">>,
     <<"U+FB14", "U+0544", "U+0535">>, <<"U+FB15", "U+0544", "U+053B">>,
     <<"U+FB16", "U+054E", "U+0546">>, <<"U+FB17", "U+0544", "U+053D">>,
     <<"U+FF41", "U+FF21">>, <<"U+FF42", "U+FF22">>, <<"U+FF43", "U+FF23">>,
     <<"U+FF44", "U+FF24">>, <<"U+FF45", "U+FF25">>, <<"U+FF46", "U+FF26">>,
     <<"U+FF47", "U+FF27">>, <<"U+FF48", "U+FF28">>, <<"U+FF49", "U+FF29">>,
     <<"U+FF4A", "U+FF2A">>, <<"U+FF4B", "U+FF2B">>, <<"U+FF4C", "U+FF2C">>,
     <<"U+FF4D", "U+FF2D">>, <<"U+FF4E", "U+FF2E">>, <<"U+FF4F", "U+FF2F">>,
     <<"U+FF50", "U+FF30">>, <<"U+FF51", "U+FF31">>, <<"U+FF52", "U+FF32">>,
     <<"U+FF53", "U+FF33">>, <<"U+FF54", "U+FF34">>, <<"U+FF55", "U+FF35">>,
     <<"U+FF56", "U+FF36">>, <<"U+FF57", "U+FF37">>, <<"U+FF58", "U+FF38">>,
     <<"U+FF59", "U+FF39">>, <<"U+FF5A", "U+FF3A">> }

SpecialLower == {e[1] : e \in SpecialUpper}

UpperOf == [c \in SpecialLower |-> Tail(CHOOSE e \in SpecialUpper : e[1] = c)]

\* The same for the characters that are a pair of surrogate code units:
\* the pair, followed by the pair it becomes.
PairUpper ==
    {
     <<"U+D801", "U+DC28", "U+D801", "U+DC00">>,
     <<"U+D801", "U+DC29", "U+D801", "U+DC01">>,
     <<"U+D801", "U+DC2A", "U+D801", "U+DC02">>,
     <<"U+D801", "U+DC2B", "U+D801", "U+DC03">>,
     <<"U+D801", "U+DC2C", "U+D801", "U+DC04">>,
     <<"U+D801", "U+DC2D", "U+D801", "U+DC05">>,
     <<"U+D801", "U+DC2E", "U+D801", "U+DC06">>,
     <<"U+D801", "U+DC2F", "U+D801", "U+DC07">>,
     <<"U+D801", "U+DC30", "U+D801", "U+DC08">>,
     <<"U+D801", "U+DC31", "U+D801", "U+DC09">>,
     <<"U+D801", "U+DC32", "U+D801", "U+DC0A">>,
     <<"U+D801", "U+DC33", "U+D801", "U+DC0B">>,
     <<"U+D801", "U+DC34", "U+D801", "U+DC0C">>,
     <<"U+D801", "U+DC35", "U+D801", "U+DC0D">>,
     <<"U+D801", "U+DC36", "U+D801", "U+DC0E">>,
     <<"U+D801", "U+DC37", "U+D801", "U+DC0F">>,
     <<"U+D801", "U+DC38", "U+D801", "U+DC10">>,
     <<"U+D801", "U+DC39", "U+D801", "U+DC11">>,
     <<"U+D801", "U+DC3A", "U+D801", "U+DC12">>,
     <<"U+D801", "U+DC3B", "U+D801", "U+DC13">>,
     <<"U+D801", "U+DC3C", "U+D801", "U+DC14">>,
     <<"U+D801", "U+DC3D", "U+D801", "U+DC15">>,
     <<"U+D801", "U+DC3E", "U+D801", "U+DC16">>,
     <<"U+D801", "U+DC3F", "U+D801", "U+DC17">>,
     <<"U+D801", "U+DC40", "U+D801", "U+DC18">>,
     <<"U+D801", "U+DC41", "U+D801", "U+DC19">>,
     <<"U+D801", "U+DC42", "U+D801", "U+DC1A">>,
     <<"U+D801", "U+DC43", "U+D801", "U+DC1B">>,
     <<"U+D801", "U+DC44", "U+D801", "U+DC1C">>,
     <<"U+D801", "U+DC45", "U+D801", "U+DC1D">>,
     <<"U+D801", "U+DC46", "U+D801", "U+DC1E">>,
     <<"U+D801", "U+DC47", "U+D801", "U+DC1F">>,
     <<"U+D801", "U+DC48", "U+D801", "U+DC20">>,
     <<"U+D801", "U+DC49", "U+D801", "U+DC21">>,
     <<"U+D801", "U+DC4A", "U+D801", "U+DC22">>,
     <<"U+D801", "U+DC4B", "U+D801", "U+DC23">>,
     <<"U+D801", "U+DC4C", "U+D801", "U+DC24">>,
     <<"U+D801", "U+DC4D", "U+D801", "U+DC25">>,
     <<"U+D801", "U+DC4E", "U+D801", "U+DC26">>,
     <<"U+D801", "U+DC4F", "U+D801", "U+DC27">>,
     <<"U+D801", "U+DCD8", "U+D801", "U+DCB0">>,
     <<"U+D801", "U+DCD9", "U+D801", "U+DCB1">>,
     <<"U+D801", "U+DCDA", "U+D801", "U+DCB2">>,
     <<"U+D801", "U+DCDB", "U+D801", "U+DCB3">>,
     <<"U+D801", "U+DCDC", "U+D801", "U+DCB4">>,
     <<"U+D801", "U+DCDD", "U+D801", "U+DCB5">>,
     <<"U+D801", "U+DCDE", "U+D801", "U+DCB6">>,
     <<"U+D801", "U+DCDF", "U+D801", "U+DCB7">>,
     <<"U+D801", "U+DCE0", "U+D801", "U+DCB8">>,
     <<"U+D801", "U+DCE1", "U+D801", "U+DCB9">>,
     <<"U+D801", "U+DCE2", "U+D801", "U+DCBA">>,
     <<"U+D801", "U+DCE3", "U+D801", "U+DCBB">>,
     <<"U+D801", "U+DCE4", "U+D801", "U+DCBC">>,
     <<"U+D801", "U+DCE5", "U+D801", "U+DCBD">>,
     <<"U+D801", "U+DCE6", "U+D801", "U+DCBE">>,
     <<"U+D801", "U+DCE7", "U+D801", "U+DCBF">>,
     <<"U+D801", "U+DCE8", "U+D801", "U+DCC0">>,
     <<"U+D801", "U+DCE9", "U+D801", "U+DCC1">>,
     <<"U+D801", "U+DCEA", "U+D801", "U+DCC2">>,
     <<"U+D801", "U+DCEB", "U+D801", "U+DCC3">>,
     <<"U+D801", "U+DCEC", "U+D801", "U+DCC4">>,
     <<"U+D801", "U+DCED", "U+D801", "U+DCC5">>,
     <<"U+D801", "U+DCEE", "U+D801", "U+DCC6">>,
     <<"U+D801", "U+DCEF", "U+D801", "U+DCC7">>,
     <<"U+D801", "U+DCF0", "U+D801", "U+DCC8">>,
     <<"U+D801", "U+DCF1", "U+D801", "U+DCC9">>,
     <<"U+D801", "U+DCF2", "U+D801", "U+DCCA">>,
     <<"U+D801", "U+DCF3", "U+D801", "U+DCCB">>,
     <<"U+D801", "U+DCF4", "U+D801", "U+DCCC">>,
     <<"U+D801", "U+DCF5", "U+D801", "U+DCCD">>,
     <<"U+D801", "U+DCF6", "U+D801", "U+DCCE">>,
     <<"U+D801", "U+DCF7", "U+D801", "U+DCCF">>,
     <<"U+D801", "U+DCF8", "U+D801", "U+DCD0">>,
     <<"U+D801", "U+DCF9", "U+D801", "U+DCD1">>,
     <<"U+D801", "U+DCFA", "U+D801", "U+DCD2">>,
     <<"U+D801", "U+DCFB", "U+D801", "U+DCD3">>,
     <<"U+D801", "U+DD97", "U+D801", "U+DD70">>,
     <<"U+D801", "U+DD98", "U+D801", "U+DD71">>,
     <<"U+D801", "U+DD99", "U+D801", "U+DD72">>,
     <<"U+D801", "U+DD9A", "U+D801", "U+DD73">>,
     <<"U+D801", "U+DD9B", "U+D801", "U+DD74">>,
     <<"U+D801", "U+DD9C", "U+D801", "U+DD75">>,
     <<"U+D801", "U+DD9D", "U+D801", "U+DD76">>,
     <<"U+D801", "U+DD9E", "U+D801", "U+DD77">>,
     <<"U+D801", "U+DD9F", "U+D801", "U+DD78">>,
     <<"U+D801", "U+DDA0", "U+D801", "U+DD79">>,
     <<"U+D801", "U+DDA1", "U+D801", "U+DD7A">>,
     <<"U+D801", "U+DDA3", "U+D801", "U+DD7C">>,
     <<"U+D801", "U+DDA4", "U+D801", "U+DD7D">>,
     <<"U+D801", "U+DDA5", "U+D801", "U+DD7E">>,
     <<"U+D801", "U+DDA6", "U+D801", "U+DD7F">>,
     <<"U+D801", "U+DDA7", "U+D801", "U+DD80">>,
     <<"U+D801", "U+DDA8", "U+D801", "U+DD81">>,
     <<"U+D801", "U+DDA9", "U+D801", "U+DD82">>,
     <<"U+D801", "U+DDAA", "U+D801", "U+DD83">>,
     <<"U+D801", "U+DDAB", "U+D801", "U+DD84">>,
     <<"U+D801", "U+DDAC", "U+D801", "U+DD85">>,
     <<"U+D801", "U+DDAD", "U+D801", "U+DD86">>,
     <<"U+D801", "U+DDAE", "U+D801", "U+DD87">>,
     <<"U+D801", "U+DDAF", "U+D801", "U+DD88">>,
     <<"U+D801", "U+DDB0", "U+D801", "U+DD89">>,
     <<"U+D801", "U+DDB1", "U+D801", "U+DD8A">>,
     <<"U+D801", "U+DDB3", "U+D801", "U+DD8C">>,
     <<"U+D801", "U+DDB4", "U+D801", "U+DD8D">>,
     <<"U+D801", "U+DDB5", "U+D801", "U+DD8E">>,
     <<"U+D801", "U+DDB6", "U+D801", "U+DD8F">>,
     <<"U+D801", "U+DDB7", "U+D801", "U+DD90">>,
     <<"U+D801", "U+DDB8", "U+D801", "U+DD91">>,
     <<"U+D801", "U+DDB9", "U+D801", "U+DD92">>,
     <<"U+D801", "U+DDBB", "U+D801", "U+DD94">>,
     <<"U+D801", "U+DDBC", "U+D801", "U+DD95">>,
     <<"U+D803", "U+DCC0", "U+D803", "U+DC80">>,
     <<"U+D803", "U+DCC1", "U+D803", "U+DC81">>,
     <<"U+D803", "U+DCC2", "U+D803", "U+DC82">>,
     <<"U+D803", "U+DCC3", "U+D803", "U+DC83">>,
     <<"U+D803", "U+DCC4", "U+D803", "U+DC84">>,
     <<"U+D803", "U+DCC5", "U+D803", "U+DC85">>,
     <<"U+D803", "U+DCC6", "U+D803", "U+DC86">>,
     <<"U+D803", "U+DCC7", "U+D803", "U+DC87">>,
     <<"U+D803", "U+DCC8", "U+D803", "U+DC88">>,
     <<"U+D803", "U+DCC9", "U+D803", "U+DC89">>,
     <<"U+D803", "U+DCCA", "U+D803", "U+DC8A">>,
     <<"U+D803", "U+DCCB", "U+D803", "U+DC8B">>,
     <<"U+D803", "U+DCCC", "U+D803", "U+DC8C">>,
     <<"U+D803", "U+DCCD", "U+D803", "U+DC8D">>,
     <<"U+D803", "U+DCCE", "U+D803", "U+DC8E">>,
     <<"U+D803", "U+DCCF", "U+D803", "U+DC8F">>,
     <<"U+D803", "U+DCD0", "U+D803", "U+DC90">>,
     <<"U+D803", "U+DCD1", "U+D803", "U+DC91">>,
     <<"U+D803", "U+DCD2", "U+D803", "U+DC92">>,
     <<"U+D803", "U+DCD3", "U+D803", "U+DC93">>,
     <<"U+D803", "U+DCD4", "U+D803", "U+DC94">>,
     <<"U+D803", "U+DCD5", "U+D803", "U+DC95">>,
     <<"U+D803", "U+DCD6", "U+D803", "U+DC96">>,
     <<"U+D803", "U+DCD7", "U+D803", "U+DC97">>,
     <<"U+D803", "U+DCD8", "U+D803", "U+DC98">>,
     <<"U+D803", "U+DCD9", "U+D803", "U+DC99">>,
     <<"U+D803", "U+DCDA", "U+D803", "U+DC9A">>,
     <<"U+D803", "U+DCDB", "U+D803", "U+DC9B">>,
     <<"U+D803", "U+DCDC", "U+D803", "U+DC9C">>,
     <<"U+D803", "U+DCDD", "U+D803", "U+DC9D">>,
     <<"U+D803", "U+DCDE", "U+D803", "U+DC9E">>,
     <<"U+D803", "U+DCDF", "U+D803", "U+DC9F">>,
     <<"U+D803", "U+DCE0", "U+D803", "U+DCA0">>,
     <<"U+D803", "U+DCE1", "U+D803", "U+DCA1">>,
     <<"U+D803", "U+DCE2", "U+D803", "U+DCA2">>,
     <<"U+D803", "U+DCE3", "U+D803", "U+DCA3">>,
     <<"U+D803", "U+DCE4", "U+D803", "U+DCA4">>,
     <<"U+D803", "U+DCE5", "U+D803", "U+DCA5">>,
     <<"U+D803", "U+DCE6", "U+D803", "U+DCA6">>,
     <<"U+D803", "U+DCE7", "U+D803", "U+DCA7">>,
     <<"U+D803", "U+DCE8", "U+D803", "U+DCA8">>,
     <<"U+D803", "U+DCE9", "U+D803", "U+DCA9">>,
     <<"U+D803", "U+DCEA", "U+D803", "U+DCAA">>,
     <<"U+D803", "U+DCEB", "U+D803", "U+DCAB">>,
     <<"U+D803", "U+DCEC", "U+D803", "U+DCAC">>,
     <<"U+D803", "U+DCED", "U+D803", "U+DCAD">>,
     <<"U+D803", "U+DCEE", "U+D803", "U+DCAE">>,
     <<"U+D803", "U+DCEF", "U+D803", "U+DCAF">>,
     <<"U+D803", "U+DCF0", "U+D803", "U+DCB0">>,
     <<"U+D803", "U+DCF1", "U+D803", "U+DCB1">>,
     <<"U+D803", "U+DCF2", "U+D803", "U+DCB2">>,
     <<"U+D803", "U+DD70", "U+D803", "U+DD50">>,
     <<"U+D803", "U+DD71", "U+D803", "U+DD51">>,
     <<"U+D803", "U+DD72", "U+D803", "U+DD52">>,
     <<"U+D803", "U+DD73", "U+D803", "U+DD53">>,
     <<"U+D803", "U+DD74", "U+D803", "U+DD54">>,
     <<"U+D803", "U+DD75", "U+D803", "U+DD55">>,
     <<"U+D803", "U+DD76", "U+D803", "U+DD56">>,
     <<"U+D803", "U+DD77", "U+D803", "U+DD57">>,
     <<"U+D803", "U+DD78", "U+D803", "U+DD58">>,
     <<"U+D803", "U+DD79", "U+D803", "U+DD59">>,
     <<"U+D803", "U+DD7A", "U+D803", "U+DD5A">>,
     <<"U+D803", "U+DD7B", "U+D803", "U+DD5B">>,
     <<"U+D803", "U+DD7C", "U+D803", "U+DD5C">>,
     <<"U+D803", "U+DD7D", "U+D803", "U+DD5D">>,
     <<"U+D803", "U+DD7E", "U+D803", "U+DD5E">>,
     <<"U+D803", "U+DD7F", "U+D803", "U+DD5F">>,
     <<"U+D803", "U+DD80", "U+D803", "U+DD60">>,
     <<"U+D803", "U+DD81", "U+D803", "U+DD61">>,
     <<"U+D803", "U+DD82", "U+D803", "U+DD62">>,
     <<"U+D803", "U+DD83", "U+D803", "U+DD63">>,
     <<"U+D803", "U+DD84", "U+D803", "U+DD64">>,
     <<"U+D803", "U+DD85", "U+D803", "U+DD65">>,
     <<"U+D806", "U+DCC0", "U+D806", "U+DCA0">>,
     <<"U+D806", "U+DCC1", "U+D806", "U+DCA1">>,
     <<"U+D806", "U+DCC2", "U+D806", "U+DCA2">>,
     <<"U+D806", "U+DCC3", "U+D806", "U+DCA3">>,
     <<"U+D806", "U+DCC4", "U+D806", "U+DCA4">>,
     <<"U+D806", "U+DCC5", "U+D806", "U+DCA5">>,
     <<"U+D806", "U+DCC6", "U+D806", "U+DCA6">>,
     <<"U+D806", "U+DCC7", "U+D806", "U+DCA7">>,
     <<"U+D806", "U+DCC8", "U+D806", "U+DCA8">>,
     <<"U+D806", "U+DCC9", "U+D806", "U+DCA9">>,
     <<"U+D806", "U+DCCA", "U+D806", "U+DCAA">>,
     <<"U+D806", "U+DCCB", "U+D806", "U+DCAB">>,
     <<"U+D806", "U+DCCC", "U+D806", "U+DCAC">>,
     <<"U+D806", "U+DCCD", "U+D806", "U+DCAD">>,
     <<"U+D806", "U+DCCE", "U+D806", "U+DCAE">>,
     <<"U+D806", "U+DCCF", "U+D806", "U+DCAF">>,
     <<"U+D806", "U+DCD0", "U+D806", "U+DCB0">>,
     <<"U+D806", "U+DCD1", "U+D806", "U+DCB1">>,
     <<"U+D806", "U+DCD2", "U+D806", "U+DCB2">>,
     <<"U+D806", "U+DCD3", "U+D806", "U+DCB3">>,
     <<"U+D806", "U+DCD4", "U+D806", "U+DCB4">>,
     <<"U+D806", "U+DCD5", "U+D806", "U+DCB5">>,
     <<"U+D806", "U+DCD6", "U+D806", "U+DCB6">>,
     <<"U+D806", "U+DCD7", "U+D806", "U+DCB7">>,
     <<"U+D806", "U+DCD8", "U+D806", "U+DCB8">>,
     <<"U+D806", "U+DCD9", "U+D806", "U+DCB9">>,
     <<"U+D806", "U+DCDA", "U+D806", "U+DCBA">>,
     <<"U+D806", "U+DCDB", "U+D806", "U+DCBB">>,
     <<"U+D806", "U+DCDC", "U+D806", "U+DCBC">>,
     <<"U+D806", "U+DCDD", "U+D806", "U+DCBD">>,
     <<"U+D806", "U+DCDE", "U+D806", "U+DCBE">>,
     <<"U+D806", "U+DCDF", "U+D806", "U+DCBF">>,
     <<"U+D81B", "U+DE60", "U+D81B", "U+DE40">>,
     <<"U+D81B", "U+DE61", "U+D81B", "U+DE41">>,
     <<"U+D81B", "U+DE62", "U+D81B", "U+DE42">>,
     <<"U+D81B", "U+DE63", "U+D81B", "U+DE43">>,
     <<"U+D81B", "U+DE64", "U+D81B", "U+DE44">>,
     <<"U+D81B", "U+DE65", "U+D81B", "U+DE45">>,
     <<"U+D81B", "U+DE66", "U+D81B", "U+DE46">>,
     <<"U+D81B", "U+DE67", "U+D81B", "U+DE47">>,
     <<"U+D81B", "U+DE68", "U+D81B", "U+DE48">>,
     <<"U+D81B", "U+DE69", "U+D81B", "U+DE49">>,
     <<"U+D81B", "U+DE6A", "U+D81B", "U+DE4A">>,
     <<"U+D81B", "U+DE6B", "U+D81B", "U+DE4B">>,
     <<"U+D81B", "U+DE6C", "U+D81B", "U+DE4C">>,
     <<"U+D81B", "U+DE6D", "U+D81B", "U+DE4D">>,
     <<"U+D81B", "U+DE6E", "U+D81B", "U+DE4E">>,
     <<"U+D81B", "U+DE6F", "U+D81B", "U+DE4F">>,
     <<"U+D81B", "U+DE70", "U+D81B", "U+DE50">>,
     <<"U+D81B", "U+DE71", "U+D81B", "U+DE51">>,
     <<"U+D81B", "U+DE72", "U+D81B", "U+DE52">>,
     <<"U+D81B", "U+DE73", "U+D81B", "U+DE53">>,
     <<"U+D81B", "U+DE74", "U+D81B", "U+DE54">>,
     <<"U+D81B", "U+DE75", "U+D81B", "U+DE55">>,
     <<"U+D81B", "U+DE76", "U+D81B", "U+DE56">>,
     <<"U+D81B", "U+DE77", "U+D81B", "U+DE57">>,
     <<"U+D81B", "U+DE78", "U+D81B", "U+DE58">>,
     <<"U+D81B", "U+DE79", "U+D81B", "U+DE59">>,
     <<"U+D81B", "U+DE7A", "U+D81B", "U+DE5A">>,
     <<"U+D81B", "U+DE7B", "U+D81B", "U+DE5B">>,
     <<"U+D81B", "U+DE7C", "U+D81B", "U+DE5C">>,
     <<"U+D81B", "U+DE7D", "U+D81B", "U+DE5D">>,
     <<"U+D81B", "U+DE7E", "U+D81B", "U+DE5E">>,
     <<"U+D81B", "U+DE7F", "U+D81B", "U+DE5F">>,
     <<"U+D81B", "U+DEBB", "U+D81B", "U+DEA0">>,
     <<"U+D81B", "U+DEBC", "U+D81B", "U+DEA1">>,
     <<"U+D81B", "U+DEBD", "U+D81B", "U+DEA2">>,
     <<"U+D81B", "U+DEBE", "U+D81B", "U+DEA3">>,
     <<"U+D81B", "U+DEBF", "U+D81B", "U+DEA4">>,
     <<"U+D81B", "U+DEC0", "U+D81B", "U+DEA5">>,
     <<"U+D81B", "U+DEC1", "U+D81B", "U+DEA6">>,
     <<"U+D81B", "U+DEC2", "U+D81B", "U+DEA7">>,
     <<"U+D81B", "U+DEC3", "U+D81B", "U+DEA8">>,
     <<"U+D81B", "U+DEC4", "U+D81B", "U+DEA9">>,
     <<"U+D81B", "U+DEC5", "U+D81B", "U+DEAA">>,
     <<"U+D81B", "U+DEC6", "U+D81B", "U+DEAB">>,
     <<"U+D81B", "U+DEC7", "U+D81B", "U+DEAC">>,
     <<"U+D81B", "U+DEC8", "U+D81B", "U+DEAD">>,
     <<"U+D81B", "U+DEC9", "U+D81B", "U+DEAE">>,
     <<"U+D81B", "U+DECA", "U+D81B", "U+DEAF">>,
     <<"U+D81B", "U+DECB", "U+D81B", "U+DEB0">>,
     <<"U+D81B", "U+DECC", "U+D81B", "U+DEB1">>,
     <<"U+D81B", "U+DECD", "U+D81B", "U+DEB2">>,
     <<"U+D81B", "U+DECE", "U+D81B", "U+DEB3">>,
     <<"U+D81B", "U+DECF", "U+D81B", "U+DEB4">>,
     <<"U+D81B", "U+DED0", "U+D81B", "U+DEB5">>,
     <<"U+D81B", "U+DED1", "U+D81B", "U+DEB6">>,
     <<"U+D81B", "U+DED2", "U+D81B", "U+DEB7">>,
     <<"U+D81B", "U+DED3", "U+D81B", "U+DEB8">>,
     <<"U+D83A", "U+DD22", "U+D83A", "U+DD00">>,
     <<"U+D83A", "U+DD23", "U+D83A", "U+DD01">>,
     <<"U+D83A", "U+DD24", "U+D83A", "U+DD02">>,
     <<"U+D83A", "U+DD25", "U+D83A", "U+DD03">>,
     <<"U+D83A", "U+DD26", "U+D83A", "U+DD04">>,
     <<"U+D83A", "U+DD27", "U+D83A", "U+DD05">>,
     <<"U+D83A", "U+DD28", "U+D83A", "U+DD06">>,
     <<"U+D83A", "U+DD29", "U+D83A", "U+DD07">>,
     <<"U+D83A", "U+DD2A", "U+D83A", "U+DD08">>,
     <<"U+D83A", "U+DD2B", "U+D83A", "U+DD09">>,
     <<"U+D83A", "U+DD2C", "U+D83A", "U+DD0A">>,
     <<"U+D83A", "U+DD2D", "U+D83A", "U+DD0B">>,
     <<"U+D83A", "U+DD2E", "U+D83A", "U+DD0C">>,
     <<"U+D83A", "U+DD2F", "U+D83A", "U+DD0D">>,
     <<"U+D83A", "U+DD30", "U+D83A", "U+DD0E">>,
     <<"U+D83A", "U+DD31", "U+D83A", "U+DD0F">>,
     <<"U+D83A", "U+DD32", "U+D83A", "U+DD10">>,
     <<"U+D83A", "U+DD33", "U+D83A", "U+DD11">>,
     <<"U+D83A", "U+DD34", "U+D83A", "U+DD12">>,
     <<"U+D83A", "U+DD35", "U+D83A", "U+DD13">>,
     <<"U+D83A", "U+DD36", "U+D83A", "U+DD14">>,
     <<"U+D83A", "U+DD37", "U+D83A", "U+DD15">>,
     <<"U+D83A", "U+DD38", "U+D83A", "U+DD16">>,
     <<"U+D83A", "U+DD39", "U+D83A", "U+DD17">>,
     <<"U+D83A", "U+DD3A", "U+D83A", "U+DD18">>,
     <<"U+D83A", "U+DD3B", "U+D83A", "U+DD19">>,
     <<"U+D83A", "U+DD3C", "U+D83A", "U+DD1A">>,
     <<"U+D83A", "U+DD3D", "U+D83A", "U+DD1B">>,
     <<"U+D83A", "U+DD3E", "U+D83A", "U+DD1C">>,
     <<"U+D83A", "U+DD3F", "U+D83A", "U+DD1D">>,
     <<"U+D83A", "U+DD40", "U+D83A", "U+DD1E">>,
     <<"U+D83A", "U+DD41", "U+D83A", "U+DD1F">>,
     <<"U+D83A", "U+DD42", "U+D83A", "U+DD20">>,
     <<"U+D83A", "U+DD43", "U+D83A", "U+DD21">> }

PairLower == {SubSeq(e, 1, 2) : e \in PairUpper}

PairUpperOf ==
    [p \in PairLower |->
        SubSeq(CHOOSE e \in PairUpper : SubSeq(e, 1, 2) = p, 3, 4)]

\* String.prototype.toUpperCase on one code unit that is not half of a
\* pair: the code units it becomes.
UpperChar(c) ==
    IF \E k \in 1..26 : LowerChars[k] = c
    THEN <<UpperChars[CHOOSE k \in 1..26 : LowerChars[k] = c]>>
    ELSE IF c \in SpecialLower
    THEN UpperOf[c]
    ELSE <<c>>

RECURSIVE toUpperCase(_)
toUpperCase(s) ==
    IF s = <<>> THEN <<>>
    ELSE IF Len(s) >= 2 /\ SubSeq(s, 1, 2) \in PairLower
    THEN PairUpperOf[SubSeq(s, 1, 2)] \o toUpperCase(SubSeq(s, 3, Len(s)))
    ELSE UpperChar(Head(s)) \o toUpperCase(Tail(s))

\* Canonicalize of a regular expression with the i flag and without the u
\* flag: the upper case of the code unit when that is one code unit, but
\* a code unit outside ASCII never becomes ASCII.
Canonicalize(c) ==
    LET u == UpperChar(c)
    IN  IF Len(u) # 1 THEN c
        ELSE IF (\A k \in 1..26 : LowerChars[k] # c)
                /\ (\E k \in 1..26 : UpperChars[k] = u[1]) THEN c
        ELSE u[1]

\* base32Chars.indexOf(c): the 0-based position, or -1.
indexOf(c) ==
    IF \E k \in 1..32 : base32Chars[k] = c
    THEN (CHOOSE k \in 1..32 : base32Chars[k] = c) - 1
    ELSE -1

IsWhitespace(c) == c \in WhitespaceChars
NotWhitespace(c) == ~IsWhitespace(c)

\* s.replace(/\s/g, '')
RemoveWhitespace(s) == SelectSeq(s, NotWhitespace)

\* s.replace(/=+$/, ""): drops the maximal run of '=' that ends the string.
RECURSIVE StripTrailingPad(_)
StripTrailingPad(s) ==
    IF Len(s) > 0 /\ s[Len(s)] = "="
    THEN StripTrailingPad(SubSeq(s, 1, Len(s) - 1))
    ELSE s

\* Lines 7-9: uppercase, strip the trailing padding, then remove whitespace.
Normalize(s) == RemoveWhitespace(StripTrailingPad(toUpperCase(s)))

(***************************************************************************)
(* int32 arithmetic of the decoder.                                        *)
(***************************************************************************)
Pow2(n) == 2 ^ n

\* v << 5 on an int32: the low 27 bits move up, bit 26 becomes the sign.
Shl5(v) ==
    LET u == v % Pow2(27)
    IN  IF u >= Pow2(26) THEN (u - Pow2(27)) * 32 ELSE u * 32

RECURSIVE BitOr(_, _, _)
\* a | b on the low n bits of two non-negative numbers.
BitOr(a, b, n) ==
    IF n = 0 THEN 0
    ELSE (IF a % 2 = 1 \/ b % 2 = 1 THEN 1 ELSE 0)
         + 2 * BitOr(a \div 2, b \div 2, n - 1)

\* v | idx for an int32 v and idx in 0..31: only the low 5 bits can change.
Or5(v, idx) == (v - (v % 32)) + BitOr(v % 32, idx, 5)

\* The mask one bit short.
UshrAnd127(v, s) == (v \div Pow2(s)) % 128

\* (v >>> s) & 255: bits s..s+7 of the two's complement pattern (s <= 24).
UshrAnd255(v, s) == (v \div Pow2(s)) % 256

\* buffer[index] = b on a Uint8Array: a write past the end is ignored.
TypedArraySet(buf, idx, b) ==
    IF idx + 1 \in 1..Len(buf) THEN [buf EXCEPT ![idx + 1] = b] ELSE buf

\* Line 11: new Uint8Array((cleanStr.length * 5) / 8 | 0)
NewBuffer(clean) == [k \in 1..((Len(clean) * 5) \div 8) |-> 0]

DecoderStart(clean) ==
    [bits |-> 0, value |-> 0, index |-> 0, buffer |-> NewBuffer(clean)]

\* Lines 17-26: one iteration of the loop, on character c.
LoopBody(st, c) ==
    LET idx == indexOf(c)
        v   == Or5(Shl5(st.value), idx)
        b   == st.bits + 5
    IN  IF idx = -1 THEN st
        ELSE IF b >= 8
             THEN [bits   |-> b - 8,
                   value  |-> v,
                   index  |-> st.index + 1,
                   buffer |-> TypedArraySet(st.buffer, st.index,
                                            UshrAnd255(v, b - 8))]
             ELSE [bits |-> b, value |-> v,
                   index |-> st.index, buffer |-> st.buffer]

RECURSIVE DecodeFrom(_, _, _)
DecodeFrom(st, clean, k) ==
    IF k > Len(clean) THEN st
    ELSE DecodeFrom(LoopBody(st, clean[k]), clean, k + 1)

\* Lines 6-29: the whole function; it returns the pre-sized buffer.
base32ToBuffer(s) ==
    LET clean == Normalize(s)
    IN  DecodeFrom(DecoderStart(clean), clean, 1).buffer

(***************************************************************************)
(* isValidBase32 (lines 83-88).                                            *)
(***************************************************************************)
Null == <<"null">>
Unset == [called |-> FALSE, arg |-> <<>>, res |-> FALSE]

\* [A-Z2-7] under the i flag.
MatchesClass(c) == indexOf(Canonicalize(c)) # -1

RECURSIVE MatchPad(_, _)
\* =*$ from position k
MatchPad(s, k) ==
    IF k > Len(s) THEN TRUE
    ELSE IF s[k] = "=" THEN MatchPad(s, k + 1)
    ELSE FALSE

RECURSIVE MatchRun(_, _)
\* [A-Z2-7]*=*$ from position k (the class is disjoint from '=')
MatchRun(s, k) ==
    IF k <= Len(s) /\ MatchesClass(s[k]) THEN MatchRun(s, k + 1)
    ELSE MatchPad(s, k)

\* The pattern with * in place of +.
RegexTestStar(s) == MatchRun(s, 1)

\* /^[A-Z2-7]+=*$/i.test(s)
RegexTest(s) == Len(s) >= 1 /\ MatchesClass(s[1]) /\ MatchRun(s, 2)

isValidBase32(s) ==
    IF s = Null \/ s = <<>> THEN FALSE
    ELSE RegexTest(RemoveWhitespace(s))

\* The App before it is rendered (part_000 lines 18-24).
AppIdle ==
    /\ accounts = <<>>
    /\ codes = <<>>
    /\ timeLeft = 30
    /\ pending = <<>>
    /\ mounted = FALSE
    /\ fired = FALSE
    /\ refreshedAt = <<>>
    /\ nextId = 1

(***************************************************************************)
(* Inputs.                                                                 *)
(***************************************************************************)
SeqsUpTo(S, n) == UNION {[1..m -> S] : m \in 0..n}

Strings == SeqsUpTo(MixedChars, MaxLen) \cup SeqsUpTo(AlphaChars, MaxAlphaLen)

(***************************************************************************)
(* The decoder and the validator, step by step.                            *)
(***************************************************************************)
TotpIdle ==
    /\ secret = <<>>
    /\ windowSeconds = 30
    /\ now = [sec |-> <<0, 0, 0>>, ms |-> 0]
    /\ oracle = {}
    /\ calls = <<>>
    /\ ticks = 0

Init ==
    /\ str \in Strings
    /\ pc = "start"
    /\ cleanStr = <<>>
    /\ i = 0
    /\ bits = 0
    /\ value = 0
    /\ index = 0
    /\ buffer = <<>>
    /\ valid = Unset
    /\ TotpIdle
    /\ AppIdle

\* Lines 7-14.
Enter ==
    /\ pc = "start"
    /\ cleanStr' = Normalize(str)
    /\ buffer' = DecoderStart(Normalize(str)).buffer
    /\ bits' = 0
    /\ value' = 0
    /\ index' = 0
    /\ i' = 0
    /\ pc' = "loop"
    /\ UNCHANGED <<str, valid>>
    /\ UNCHANGED totpVars
    /\ UNCHANGED appVars

\* Lines 16-27: one loop iteration.
LoopIter ==
    /\ pc = "loop"
    /\ i < Len(cleanStr)
    /\ LET st == LoopBody([bits |-> bits, value |-> value,
                           index |-> index, buffer |-> buffer],
                          cleanStr[i + 1])
       IN  /\ bits' = st.bits
           /\ value' = st.value
           /\ index' = st.index
           /\ buffer' = st.buffer
    /\ i' = i + 1
    /\ UNCHANGED <<str, pc, cleanStr, valid>>
    /\ UNCHANGED totpVars
    /\ UNCHANGED appVars

\* Line 28.
Return ==
    /\ pc = "loop"
    /\ i >= Len(cleanStr)
    /\ pc' = "done"
    /\ UNCHANGED <<str, cleanStr, i, bits, value, index, buffer, valid>>
    /\ UNCHANGED totpVars
    /\ UNCHANGED appVars

\* Lines 83-88, on the string or on null.
Validate ==
    /\ ~valid.called
    /\ \E a \in {str, Null} :
           valid' = [called |-> TRUE, arg |-> a, res |-> isValidBase32(a)]
    /\ UNCHANGED <<str, pc, cleanStr, i, bits, value, index, buffer>>
    /\ UNCHANGED totpVars
    /\ UNCHANGED appVars

Next == Enter \/ LoopIter \/ Return \/ Validate

Spec == Init /\ [][Next]_vars

(***************************************************************************)
(* Numbers wider than 32 bits: three 16-bit limbs, most significant first. *)
(***************************************************************************)
Limb == 65536

\* x + d for a small non-negative d.
BigAddSmall(x, d) ==
    LET s0 == x[3] + d
        s1 == x[2] + (s0 \div Limb)
        s2 == x[1] + (s1 \div Limb)
    IN  <<s2 % Limb, s1 % Limb, s0 % Limb>>

\* Math.floor(x / w) and x % w for a small positive w, by short division.
BigDivSmall(x, w) ==
    LET c1 == x[1]
        c2 == (c1 % w) * Limb + x[2]
        c3 == (c2 % w) * Limb + x[3]
    IN  [quot |-> <<c1 \div w, c2 \div w, c3 \div w>>, rem |-> c3 % w]

\* Truncation in place of rounding.
MathFloorSeconds(t) == t.sec

\* Math.round(new Date().getTime() / 1000.0) for the clock reading t.
MathRoundSeconds(t) == IF t.ms >= 500 THEN BigAddSmall(t.sec, 1) ELSE t.sec

\* The four big-endian bytes of the 32-bit number l1 * 2^16 + l0.
Uint32Bytes(l1, l0) == <<l1 \div 256, l1 % 256, l0 \div 256, l0 % 256>>

\* Lines 52-58: setUint32(0, 0) and setUint32(4, time); setUint32 stores
\* its argument modulo 2^32, the two low limbs of time.
CounterBuffer(time) == <<0, 0, 0, 0>> \o Uint32Bytes(time[2], time[3])

(***************************************************************************)
(* Truncation and formatting (lines 63-71).                                *)
(***************************************************************************)
\* hmac[hmac.length - 1] & 0xf
TruncOffset(hmac) == hmac[Len(hmac)] % 16

\* Lines 64-68 with 0xff in place of 0x7f: an int32 in -2^31 .. 2^31-1.
BinaryNoMask(hmac) ==
    LET o  == TruncOffset(hmac)
        b0 == hmac[o + 1]
    IN  (IF b0 >= 128 THEN b0 - 256 ELSE b0) * Pow2(24)
        + (hmac[o + 2] % 256) * 65536
        + (hmac[o + 3] % 256) * 256
        + (hmac[o + 4] % 256)

\* Lines 64-68: the four bytes occupy disjoint bits, so | is +.
Binary(hmac) ==
    LET o == TruncOffset(hmac)
    IN  (hmac[o + 1] % 128) * Pow2(24)
        + (hmac[o + 2] % 256) * 65536
        + (hmac[o + 3] % 256) * 256
        + (hmac[o + 4] % 256)

\* a % m in JavaScript: the sign of the result is that of a.
JsRem(a, m) == IF a < 0 THEN 0 - ((0 - a) % m) ELSE a % m

DigitChars == <<"0","1","2","3","4","5","6","7","8","9">>

RECURSIVE NatToString(_)
NatToString(n) ==
    IF n < 10 THEN <<DigitChars[n + 1]>>
    ELSE NatToString(n \div 10) \o <<DigitChars[(n % 10) + 1]>>

\* Number.prototype.toString() on an integer.
toString(n) == IF n < 0 THEN <<"-">> \o NatToString(0 - n) ELSE NatToString(n)

RECURSIVE padStart(_, _, _)
padStart(s, n, c) == IF Len(s) >= n THEN s ELSE padStart(<<c>> \o s, n, c)

\* Lines 63-71.
FormatCode(hmac) == padStart(toString(JsRem(Binary(hmac), 1000000)), 6, "0")

INVALID == <<"I","N","V","A","L","I","D">>
ERROR == <<"E","R","R","O","R">>

(***************************************************************************)
(* HMAC-SHA1 (lines 31-41) is the platform's: a function of key and data   *)
(* whose value is the 20-byte digest, unless the platform throws.          *)
(***************************************************************************)
DigestLen == 20

BlockLen == 64

\* HMAC pads a key of up to BlockLen bytes with zero bytes to that length:
\* such keys that differ in trailing zero bytes are the same key.
RECURSIVE ZeroStripped(_)
ZeroStripped(key) ==
    IF Len(key) > 0 /\ key[Len(key)] = 0
    THEN ZeroStripped(SubSeq(key, 1, Len(key) - 1))
    ELSE key

\* The key as HMAC tells keys apart: a key longer than BlockLen is hashed
\* before use and is a key of its own.
HmacKey(key) == IF Len(key) > BlockLen THEN key ELSE ZeroStripped(key)

Zeros(n) == [k \in 1..n |-> 0]

\* HMAC-SHA1 on the keys and messages of the model, and on three keys
\* longer than BlockLen: key (as HmacKey gives it), message, digest.
HmacSha1Table ==
    {
      [key |-> <<>>, msg |-> <<0, 0, 0, 0, 0, 0, 0, 0>>,
       digest |-> <<218, 182, 154, 217, 142, 40, 118, 79, 151, 126, 226, 72, 126, 79, 63, 104, 115, 178, 162, 151>>],
      [key |-> <<>>, msg |-> <<0, 0, 0, 0, 0, 0, 0, 1>>,
       digest |-> <<238, 176, 11, 11, 204, 134, 70, 121, 255, 45, 141, 211, 11, 236, 73, 92, 181, 242, 238, 158>>],
      [key |-> <<>>, msg |-> <<0, 0, 0, 0, 0, 0, 0, 2>>,
       digest |-> <<177, 111, 139, 209, 46, 204, 48, 149, 241, 100, 19, 190, 113, 82, 213, 229, 8, 196, 23, 206>>],
      [key |-> <<>>, msg |-> <<0, 0, 0, 0, 0, 0, 0, 3>>,
       digest |-> <<224, 43, 194, 154, 77, 245, 0, 208, 21, 94, 73, 177, 175, 73, 191, 103, 22, 61, 35, 169>>],
      [key |-> <<>>, msg |-> <<0, 0, 0, 0, 0, 0, 0, 4>>,
       digest |-> <<153, 97, 98, 118, 164, 49, 148, 153, 93, 15, 2, 90, 240, 179, 254, 143, 218, 237, 146, 141>>],
      [key |-> <<>>, msg |-> <<0, 0, 0, 0, 0, 0, 0, 8>>,
       digest |-> <<230, 26, 22, 214, 159, 77, 75, 4, 239, 255, 76, 232, 24, 187, 189, 3, 163, 40, 193, 112>>],
      [key |-> <<>>, msg |-> <<0, 0, 0, 0, 0, 0, 0, 12>>,
       digest |-> <<5, 139, 76, 98, 202, 144, 15, 247, 162, 88, 48, 180, 205, 24, 11, 44, 113, 212, 54, 63>>],
      [key |-> <<>>, msg |-> <<0, 0, 0, 0, 0, 0, 0, 16>>,
       digest |-> <<203, 123, 65, 57, 22, 183, 217, 20, 153, 241, 1, 135, 153, 22, 181, 184, 209, 255, 78, 174>>],
      [key |-> <<>>, msg |-> <<0, 0, 0, 0, 0, 0, 0, 20>>,
       digest |-> <<92, 182, 147, 68, 99, 144, 68, 142, 71, 43, 100, 199, 137, 156, 177, 63, 138, 254, 36, 26>>],
      [key |-> <<>>, msg |-> <<0, 0, 0, 0, 0, 0, 0, 28>>,
       digest |-> <<249, 112, 11, 237, 120, 53, 236, 126, 63, 48, 28, 20, 36, 5, 93, 187, 11, 116, 231, 217>>],
      [key |-> <<>>, msg |-> <<0, 0, 0, 0, 0, 0, 0, 29>>,
       digest |-> <<131, 118, 177, 135, 92, 105, 211, 52, 191, 152, 146, 185, 67, 96, 75, 93, 157, 154, 56, 247>>],
      [key |-> <<>>, msg |-> <<0, 0, 0, 0, 0, 0, 0, 30>>,
       digest |-> <<78, 23, 169, 134, 118, 99, 252, 46, 128, 231, 111, 26, 126, 70, 171, 254, 59, 172, 146, 181>>],
      [key |-> <<>>, msg |-> <<0, 0, 0, 0, 0, 0, 0, 31>>,
       digest |-> <<85, 76, 176, 155, 162, 6, 56, 89, 206, 46, 227, 226, 23, 73, 122, 177, 178, 147, 85, 220>>],
      [key |-> <<>>, msg |-> <<0, 0, 0, 0, 0, 0, 0, 57>>,
       digest |-> <<85, 248, 168, 22, 84, 242, 43, 91, 64, 68, 119, 208, 164, 86, 36, 3, 234, 220, 159, 149>>],
      [key |-> <<>>, msg |-> <<0, 0, 0, 0, 0, 0, 0, 58>>,
       digest |-> <<7, 110, 156, 167, 113, 66, 253, 10, 18, 25, 174, 185, 191, 128, 28, 135, 128, 125, 96, 244>>],
      [key |-> <<>>, msg |-> <<0, 0, 0, 0, 0, 0, 0, 59>>,
       digest |-> <<211, 106, 92, 158, 80, 183, 236, 137, 176, 116, 148, 172, 2, 129, 24, 102, 214, 163, 102, 34>>],
      [key |-> <<>>, msg |-> <<0, 0, 0, 0, 0, 0, 0, 86>>,
       digest |-> <<222, 65, 111, 158, 150, 169, 183, 124, 183, 15, 10, 181, 252, 208, 166, 103, 161, 247, 53, 82>>],
      [key |-> <<>>, msg |-> <<0, 0, 0, 0, 0, 0, 0, 87>>,
       digest |-> <<27, 66, 15, 27, 57, 72, 68, 73, 102, 185, 29, 132, 45, 165, 218, 116, 112, 202, 199, 50>>],
      [key |-> <<>>, msg |-> <<0, 0, 0, 0, 0, 0, 0, 88>>,
       digest |-> <<72, 114, 119, 250, 99, 221, 160, 212, 64, 11, 129, 254, 137, 220, 199, 179, 106, 203, 13, 57>>],
      [key |-> <<>>, msg |-> <<0, 0, 0, 0, 0, 0, 0, 115>>,
       digest |-> <<189, 174, 117, 142, 182, 74, 220, 12, 191, 244, 13, 183, 56, 120, 246, 155, 2, 150, 238, 18>>],
      [key |-> <<>>, msg |-> <<0, 0, 0, 0, 0, 0, 0, 116>>,
       digest |-> <<19, 107, 2, 223, 77, 228, 86, 4, 127, 224, 28, 121, 17, 108, 204, 88, 52, 242, 57, 58>>],
      [key |-> <<>>, msg |-> <<0, 0, 0, 0, 0, 0, 0, 145>>,
       digest |-> <<170, 101, 230, 255, 1, 189, 65, 208, 112, 113, 126, 69, 71, 163, 168, 91, 182, 139, 170, 229>>],
      [key |-> <<>>, msg |-> <<0, 0, 0, 0, 8, 136, 136, 135>>,
       digest |-> <<13, 48, 63, 26, 184, 38, 21, 217, 202, 131, 35, 5, 73, 157, 248, 134, 163, 206, 145, 52>>],
      [key |-> <<>>, msg |-> <<0, 0, 0, 0, 8, 136, 136, 136>>,
       digest |-> <<191, 80, 245, 170, 9, 222, 14, 113, 141, 147, 1, 232, 150, 120, 93, 17, 204, 17, 123, 183>>],
      [key |-> <<>>, msg |-> <<0, 0, 0, 0, 8, 136, 136, 137>>,
       digest |-> <<237, 158, 52, 6, 34, 244, 46, 244, 222, 8, 32, 160, 243, 222, 68, 223, 169, 189, 63, 133>>],
      [key |-> <<>>, msg |-> <<0, 0, 0, 0, 8, 136, 136, 138>>,
       digest |-> <<150, 119, 248, 200, 138, 106, 59, 251, 248, 5, 77, 52, 49, 187, 57, 189, 45, 129, 125, 96>>],
      [key |-> <<>>, msg |-> <<0, 0, 0, 0, 8, 136, 136, 139>>,
       digest |-> <<108, 62, 153, 165, 108, 217, 135, 205, 143, 18, 172, 231, 180, 180, 44, 74, 219, 74, 19, 125>>],
      [key |-> <<>>, msg |-> <<0, 0, 0, 0, 8, 136, 136, 140>>,
       digest |-> <<233, 164, 29, 230, 159, 217, 235, 118, 148, 74, 50, 169, 97, 31, 7, 230, 149, 19, 114, 87>>],
      [key |-> <<>>, msg |-> <<0, 0, 0, 0, 36, 146, 73, 32>>,
       digest |-> <<125, 92, 92, 46, 86, 34, 155, 99, 191, 118, 126, 183, 237, 232, 0, 200, 244, 180, 216, 118>>],
      [key |-> <<>>, msg |-> <<0, 0, 0, 0, 36, 146, 73, 36>>,
       digest |-> <<100, 235, 217, 189, 204, 199, 62, 172, 249, 166, 176, 208, 226, 87, 223, 242, 16, 228, 57, 124>>],
      [key |-> <<>>, msg |-> <<0, 0, 0, 0, 36, 146, 73, 40>>,
       digest |-> <<107, 178, 135, 153, 205, 98, 171, 210, 27, 200, 179, 106, 190, 88, 102, 29, 5, 184, 206, 51>>],
      [key |-> <<>>, msg |-> <<0, 0, 0, 0, 36, 146, 73, 44>>,
       digest |-> <<211, 189, 243, 234, 139, 37, 135, 250, 205, 200, 100, 51, 181, 235, 151, 92, 254, 43, 143, 144>>],
      [key |-> <<>>, msg |-> <<0, 0, 0, 0, 36, 146, 73, 48>>,
       digest |-> <<176, 1, 60, 214, 165, 173, 46, 240, 175, 193, 49, 185, 88, 41, 167, 92, 211, 105, 33, 16>>],
      [key |-> <<>>, msg |-> <<0, 0, 0, 0, 36, 146, 73, 53>>,
       digest |-> <<212, 104, 252, 169, 80, 151, 156, 78, 153, 60, 117, 253, 4, 109, 33, 64, 39, 242, 112, 126>>],
      [key |-> <<>>, msg |-> <<0, 0, 0, 0, 255, 255, 255, 226>>,
       digest |-> <<232, 71, 188, 8, 253, 14, 109, 81, 228, 242, 38, 106, 90, 253, 45, 252, 240, 247, 72, 35>>],
      [key |-> <<>>, msg |-> <<0, 0, 0, 0, 255, 255, 255, 227>>,
       digest |-> <<144, 159, 53, 181, 253, 8, 172, 51, 249, 145, 146, 238, 193, 228, 39, 146, 107, 106, 27, 202>>],
      [key |-> <<>>, msg |-> <<0, 0, 0, 0, 255, 255, 255, 228>>,
       digest |-> <<122, 28, 129, 143, 228, 32, 69, 36, 232, 212, 19, 107, 225, 36, 133, 117, 139, 121, 41, 101>>],
      [key |-> <<>>, msg |-> <<0, 0, 0, 0, 255, 255, 255, 255>>,
       digest |-> <<113, 119, 74, 221, 91, 154, 99, 88, 87, 32, 122, 141, 18, 22, 85, 185, 56, 161, 205, 36>>],
      [key |-> <<72, 101, 108, 108, 111>>, msg |-> <<0, 0, 0, 0, 0, 0, 0, 0>>,
       digest |-> <<79, 3, 224, 150, 35, 247, 98, 83, 147, 16, 217, 188, 231, 38, 149, 107, 181, 161, 111, 193>>],
      [key |-> <<72, 101, 108, 108, 111>>, msg |-> <<0, 0, 0, 0, 0, 0, 0, 1>>,
       digest |-> <<46, 64, 176, 194, 174, 132, 25, 10, 10, 53, 39, 253, 57, 113, 101, 92, 206, 187, 217, 164>>],
      [key |-> <<72, 101, 108, 108, 111>>, msg |-> <<0, 0, 0, 0, 0, 0, 0, 2>>,
       digest |-> <<202, 15, 28, 239, 26, 140, 173, 213, 5, 106, 223, 173, 218, 26, 125, 204, 79, 65, 234, 11>>],
      [key |-> <<72, 101, 108, 108, 111>>, msg |-> <<0, 0, 0, 0, 0, 0, 0, 3>>,
       digest |-> <<160, 95, 189, 177, 69, 150, 89, 131, 136, 227, 56, 106, 128, 80, 36, 91, 247, 35, 238, 252>>],
      [key |-> <<72, 101, 108, 108, 111>>, msg |-> <<0, 0, 0, 0, 0, 0, 0, 4>>,
       digest |-> <<179, 17, 126, 252, 105, 197, 71, 60, 25, 118, 184, 183, 182, 159, 184, 255, 77, 47, 229, 54>>],
      [key |-> <<72, 101, 108, 108, 111>>, msg |-> <<0, 0, 0, 0, 0, 0, 0, 8>>,
       digest |-> <<156, 228, 8, 248, 6, 128, 3, 219, 244, 68, 182, 156, 81, 168, 112, 213, 180, 203, 182, 222>>],
      [key |-> <<72, 101, 108, 108, 111>>, msg |-> <<0, 0, 0, 0, 0, 0, 0, 12>>,
       digest |-> <<177, 11, 250, 90, 187, 160, 130, 140, 131, 158, 127, 118, 159, 172, 65, 253, 199, 4, 215, 237>>],
      [key |-> <<72, 101, 108, 108, 111>>, msg |-> <<0, 0, 0, 0, 0, 0, 0, 16>>,
       digest |-> <<174, 150, 225, 42, 17, 95, 170, 226, 145, 210, 101, 189, 161, 175, 95, 12, 57, 22, 98, 31>>],
      [key |-> <<72, 101, 108, 108, 111>>, msg |-> <<0, 0, 0, 0, 0, 0, 0, 20>>,
       digest |-> <<187, 92, 117, 132, 155, 200, 177, 146, 21, 224, 122, 111, 54, 241, 126, 44, 110, 120, 38, 185>>],
      [key |-> <<72, 101, 108, 108, 111>>, msg |-> <<0, 0, 0, 0, 0, 0, 0, 28>>,
       digest |-> <<33, 110, 240, 195, 167, 64, 90, 99, 4, 176, 194, 57, 167, 109, 138, 122, 97, 56, 20, 135>>],
      [key |-> <<72, 101, 108, 108, 111>>, msg |-> <<0, 0, 0, 0, 0, 0, 0, 29>>,
       digest |-> <<55, 231, 107, 92, 185, 39, 3, 120, 8, 88, 100, 10, 88, 117, 56, 187, 60, 228, 26, 251>>],
      [key |-> <<72, 101, 108, 108, 111>>, msg |-> <<0, 0, 0, 0, 0, 0, 0, 30>>,
       digest |-> <<103, 202, 12, 103, 218, 1, 155, 171, 45, 185, 254, 41, 101, 160, 151, 114, 106, 35, 116, 163>>],
      [key |-> <<72, 101, 108, 108, 111>>, msg |-> <<0, 0, 0, 0, 0, 0, 0, 31>>,
       digest |-> <<152, 92, 27, 222, 248, 25, 42, 59, 133, 214, 97, 18, 65, 186, 61, 137, 116, 79, 90, 161>>],
      [key |-> <<72, 101, 108, 108, 111>>, msg |-> <<0, 0, 0, 0, 0, 0, 0, 57>>,
       digest |-> <<161, 152, 158, 98, 59, 20, 226, 4, 132, 231, 194, 137, 246, 24, 246, 196, 144, 231, 213, 44>>],
      [key |-> <<72, 101, 108, 108, 111>>, msg |-> <<0, 0, 0, 0, 0, 0, 0, 58>>,
       digest |-> <<249, 115, 32, 248, 32, 90, 21, 150, 62, 255, 125, 100, 246, 91, 146, 169, 128, 93, 189, 171>>],
      [key |-> <<72, 101, 108, 108, 111>>, msg |-> <<0, 0, 0, 0, 0, 0, 0, 59>>,
       digest |-> <<71, 55, 110, 43, 45, 83, 43, 46, 212, 24, 236, 141, 141, 34, 8, 65, 111, 225, 224, 220>>],
      [key |-> <<72, 101, 108, 108, 111>>, msg |-> <<0, 0, 0, 0, 0, 0, 0, 86>>,
       digest |-> <<54, 184, 184, 219, 99, 128, 77, 224, 254, 113, 239, 202, 90, 130, 240, 146, 192, 17, 254, 146>>],
      [key |-> <<72, 101, 108, 108, 111>>, msg |-> <<0, 0, 0, 0, 0, 0, 0, 87>>,
       digest |-> <<148, 156, 223, 218, 132, 195, 250, 10, 236, 230, 212, 93, 119, 181, 148, 247, 112, 179, 152, 77>>],
      [key |-> <<72, 101, 108, 108, 111>>, msg |-> <<0, 0, 0, 0, 0, 0, 0, 88>>,
       digest |-> <<8, 105, 48, 75, 188, 200, 65, 206, 45, 26, 72, 27, 152, 225, 234, 28, 195, 153, 141, 30>>],
      [key |-> <<72, 101, 108, 108, 111>>, msg |-> <<0, 0, 0, 0, 0, 0, 0, 115>>,
       digest |-> <<189, 6, 251, 96, 53, 232, 212, 15, 189, 240, 227, 61, 236, 65, 185, 193, 229, 101, 136, 116>>],
      [key |-> <<72, 101, 108, 108, 111>>, msg |-> <<0, 0, 0, 0, 0, 0, 0, 116>>,
       digest |-> <<6, 208, 13, 125, 103, 247, 117, 204, 230, 187, 117, 52, 187, 231, 102, 79, 118, 138, 6, 118>>],
      [key |-> <<72, 101, 108, 108, 111>>, msg |-> <<0, 0, 0, 0, 0, 0, 0, 145>>,
       digest |-> <<239, 208, 122, 48, 194, 16, 9, 135, 108, 51, 136, 119, 87, 229, 17, 38, 159, 123, 187, 239>>],
      [key |-> <<72, 101, 108, 108, 111>>, msg |-> <<0, 0, 0, 0, 8, 136, 136, 135>>,
       digest |-> <<108, 10, 190, 86, 33, 2, 120, 57, 223, 69, 0, 115, 192, 196, 106, 208, 201, 8, 135, 218>>],
      [key |-> <<72, 101, 108, 108, 111>>, msg |-> <<0, 0, 0, 0, 8, 136, 136, 136>>,
       digest |-> <<70, 80, 155, 109, 176, 47, 9, 244, 203, 186, 239, 250, 30, 40, 81, 105, 140, 13, 75, 248>>],
      [key |-> <<72, 101, 108, 108, 111>>, msg |-> <<0, 0, 0, 0, 8, 136, 136, 137>>,
       digest |-> <<216, 42, 234, 170, 102, 217, 39, 158, 13, 209, 194, 95, 72, 130, 53, 167, 47, 65, 228, 104>>],
      [key |-> <<72, 101, 108, 108, 111>>, msg |-> <<0, 0, 0, 0, 8, 136, 136, 138>>,
       digest |-> <<184, 125, 20, 200, 46, 144, 115, 170, 127, 91, 230, 232, 67, 111, 144, 231, 185, 196, 103, 94>>],
      [key |-> <<72, 101, 108, 108, 111>>, msg |-> <<0, 0, 0, 0, 8, 136, 136, 139>>,
       digest |-> <<90, 66, 86, 12, 235, 213, 134, 187, 39, 48, 26, 233, 35, 69, 28, 170, 254, 70, 127, 8>>],
      [key |-> <<72, 101, 108, 108, 111>>, msg |-> <<0, 0, 0, 0, 8, 136, 136, 140>>,
       digest |-> <<230, 151, 70, 5, 227, 78, 73, 176, 159, 62, 235, 197, 179, 48, 251, 215, 23, 166, 70, 98>>],
      [key |-> <<72, 101, 108, 108, 111>>, msg |-> <<0, 0, 0, 0, 36, 146, 73, 32>>,
       digest |-> <<147, 24, 99, 236, 47, 190, 129, 184, 129, 5, 128, 205, 91, 167, 137, 100, 105, 116, 253, 35>>],
      [key |-> <<72, 101, 108, 108, 111>>, msg |-> <<0, 0, 0, 0, 36, 146, 73, 36>>,
       digest |-> <<246, 130, 160, 246, 88, 171, 101, 190, 74, 50, 55, 50, 122, 210, 211, 14, 207, 83, 217, 200>>],
      [key |-> <<72, 101, 108, 108, 111>>, msg |-> <<0, 0, 0, 0, 36, 146, 73, 40>>,
       digest |-> <<201, 165, 179, 115, 233, 255, 179, 85, 23, 164, 241, 195, 180, 12, 224, 208, 25, 241, 233, 203>>],
      [key |-> <<72, 101, 108, 108, 111>>, msg |-> <<0, 0, 0, 0, 36, 146, 73, 44>>,
       digest |-> <<188, 160, 80, 74, 115, 157, 127, 17, 53, 240, 171, 58, 238, 129, 175, 171, 33, 135, 44, 94>>],
      [key |-> <<72, 101, 108, 108, 111>>, msg |-> <<0, 0, 0, 0, 36, 146, 73, 48>>,
       digest |-> <<80, 108, 123, 42, 217, 159, 205, 200, 210, 164, 226, 19, 135, 64, 127, 75, 177, 103, 173, 114>>],
      [key |-> <<72, 101, 108, 108, 111>>, msg |-> <<0, 0, 0, 0, 36, 146, 73, 53>>,
       digest |-> <<144, 30, 217, 3, 6, 181, 91, 14, 217, 146, 134, 43, 92, 34, 222, 76, 217, 161, 128, 138>>],
      [key |-> <<72, 101, 108, 108, 111>>, msg |-> <<0, 0, 0, 0, 255, 255, 255, 226>>,
       digest |-> <<45, 221, 46, 232, 23, 80, 34, 211, 119, 81, 53, 157, 89, 221, 164, 212, 41, 138, 99, 129>>],
      [key |-> <<72, 101, 108, 108, 111>>, msg |-> <<0, 0, 0, 0, 255, 255, 255, 227>>,
       digest |-> <<41, 186, 83, 123, 114, 210, 34, 74, 112, 156, 114, 102, 227, 189, 40, 129, 165, 35, 80, 46>>],
      [key |-> <<72, 101, 108, 108, 111>>, msg |-> <<0, 0, 0, 0, 255, 255, 255, 228>>,
       digest |-> <<107, 122, 195, 125, 58, 103, 127, 243, 87, 209, 17, 72, 25, 1, 157, 116, 27, 187, 51, 186>>],
      [key |-> <<72, 101, 108, 108, 111>>, msg |-> <<0, 0, 0, 0, 255, 255, 255, 255>>,
       digest |-> <<231, 57, 103, 163, 203, 222, 152, 65, 143, 226, 188, 217, 81, 64, 58, 127, 35, 195, 128, 45>>],
      [key |-> <<255, 255>>, msg |-> <<0, 0, 0, 0, 0, 0, 0, 0>>,
       digest |-> <<68, 182, 146, 163, 205, 32, 27, 49, 155, 57, 30, 59, 5, 3, 55, 2, 55, 192, 164, 181>>],
      [key |-> <<255, 255>>, msg |-> <<0, 0, 0, 0, 0, 0, 0, 1>>,
       digest |-> <<10, 93, 103, 100, 128, 249, 207, 151, 211, 32, 153, 198, 237, 35, 135, 62, 83, 39, 190, 205>>],
      [key |-> <<255, 255>>, msg |-> <<0, 0, 0, 0, 0, 0, 0, 2>>,
       digest |-> <<127, 117, 160, 247, 91, 247, 145, 23, 155, 218, 38, 248, 239, 183, 58, 148, 144, 0, 241, 202>>],
      [key |-> <<255, 255>>, msg |-> <<0, 0, 0, 0, 0, 0, 0, 3>>,
       digest |-> <<156, 4, 171, 54, 84, 90, 40, 47, 230, 203, 254, 138, 23, 43, 37, 239, 14, 176, 43, 238>>],
      [key |-> <<255, 255>>, msg |-> <<0, 0, 0, 0, 0, 0, 0, 4>>,
       digest |-> <<101, 186, 189, 148, 133, 150, 42, 183, 229, 229, 21, 144, 214, 187, 102, 152, 66, 105, 45, 227>>],
      [key |-> <<255, 255>>, msg |-> <<0, 0, 0, 0, 0, 0, 0, 8>>,
       digest |-> <<73, 16, 237, 248, 22, 98, 185, 248, 94, 202, 149, 206, 35, 107, 14, 32, 176, 219, 119, 141>>],
      [key |-> <<255, 255>>, msg |-> <<0, 0, 0, 0, 0, 0, 0, 12>>,
       digest |-> <<55, 217, 206, 151, 205, 50, 88, 98, 103, 82, 153, 133, 153, 69, 244, 155, 217, 85, 105, 48>>],
      [key |-> <<255, 255>>, msg |-> <<0, 0, 0, 0, 0, 0, 0, 16>>,
       digest |-> <<134, 183, 184, 137, 138, 105, 61, 193, 218, 158, 43, 105, 117, 77, 146, 104, 238, 240, 38, 163>>],
      [key |-> <<255, 255>>, msg |-> <<0, 0, 0, 0, 0, 0, 0, 20>>,
       digest |-> <<162, 101, 255, 230, 33, 116, 109, 223, 122, 152, 245, 243, 22, 96, 151, 234, 145, 143, 202, 101>>],
      [key |-> <<255, 255>>, msg |-> <<0, 0, 0, 0, 0, 0, 0, 28>>,
       digest |-> <<5, 113, 243, 0, 41, 9, 38, 169, 243, 110, 227, 196, 49, 206, 241, 130, 127, 26, 71, 171>>],
      [key |-> <<255, 255>>, msg |-> <<0, 0, 0, 0, 0, 0, 0, 29>>,
       digest |-> <<102, 89, 209, 220, 2, 146, 116, 250, 67, 242, 43, 179, 63, 115, 140, 96, 70, 165, 147, 143>>],
      [key |-> <<255, 255>>, msg |-> <<0, 0, 0, 0, 0, 0, 0, 30>>,
       digest |-> <<57, 13, 216, 166, 50, 224, 169, 51, 168, 209, 101, 238, 142, 89, 244, 58, 96, 170, 223, 37>>],
      [key |-> <<255, 255>>, msg |-> <<0, 0, 0, 0, 0, 0, 0, 31>>,
       digest |-> <<140, 154, 110, 212, 203, 35, 63, 79, 24, 222, 180, 187, 114, 215, 119, 48, 5, 111, 197, 123>>],
      [key |-> <<255, 255>>, msg |-> <<0, 0, 0, 0, 0, 0, 0, 57>>,
       digest |-> <<173, 126, 221, 89, 69, 33, 121, 163, 23, 152, 250, 222, 246, 115, 183, 175, 147, 81, 186, 207>>],
      [key |-> <<255, 255>>, msg |-> <<0, 0, 0, 0, 0, 0, 0, 58>>,
       digest |-> <<215, 55, 89, 164, 64, 180, 45, 165, 126, 65, 191, 167, 252, 212, 211, 38, 153, 20, 22, 1>>],
      [key |-> <<255, 255>>, msg |-> <<0, 0, 0, 0, 0, 0, 0, 59>>,
       digest |-> <<95, 165, 27, 127, 175, 158, 244, 52, 63, 73, 149, 27, 142, 34, 50, 93, 206, 54, 126, 250>>],
      [key |-> <<255, 255>>, msg |-> <<0, 0, 0, 0, 0, 0, 0, 86>>,
       digest |-> <<178, 187, 232, 78, 162, 89, 60, 5, 141, 213, 96, 250, 138, 151, 59, 211, 93, 196, 115, 189>>],
      [key |-> <<255, 255>>, msg |-> <<0, 0, 0, 0, 0, 0, 0, 87>>,
       digest |-> <<254, 190, 83, 113, 252, 183, 37, 36, 185, 129, 232, 48, 116, 11, 59, 126, 219, 133, 97, 13>>],
      [key |-> <<255, 255>>, msg |-> <<0, 0, 0, 0, 0, 0, 0, 88>>,
       digest |-> <<152, 122, 246, 254, 84, 232, 177, 117, 69, 7, 164, 186, 103, 172, 232, 164, 182, 250, 100, 171>>],
      [key |-> <<255, 255>>, msg |-> <<0, 0, 0, 0, 0, 0, 0, 115>>,
       digest |-> <<123, 128, 58, 191, 94, 2, 85, 255, 55, 13, 84, 108, 9, 170, 158, 56, 125, 126, 210, 97>>],
      [key |-> <<255, 255>>, msg |-> <<0, 0, 0, 0, 0, 0, 0, 116>>,
       digest |-> <<0, 98, 128, 217, 163, 235, 177, 121, 62, 62, 163, 155, 115, 137, 48, 0, 227, 78, 156, 114>>],
      [key |-> <<255, 255>>, msg |-> <<0, 0, 0, 0, 0, 0, 0, 145>>,
       digest |-> <<99, 105, 143, 11, 250, 29, 134, 149, 93, 6, 207, 94, 7, 156, 140, 96, 168, 74, 100, 95>>],
      [key |-> <<255, 255>>, msg |-> <<0, 0, 0, 0, 8, 136, 136, 135>>,
       digest |-> <<28, 154, 160, 224, 191, 199, 227, 9, 171, 0, 29, 6, 80, 201, 65, 27, 234, 83, 72, 252>>],
      [key |-> <<255, 255>>, msg |-> <<0, 0, 0, 0, 8, 136, 136, 136>>,
       digest |-> <<54, 170, 10, 146, 251, 17, 68, 22, 211, 172, 170, 225, 63, 63, 177, 49, 211, 192, 132, 125>>],
      [key |-> <<255, 255>>, msg |-> <<0, 0, 0, 0, 8, 136, 136, 137>>,
       digest |-> <<94, 9, 232, 184, 43, 241, 10, 50, 87, 226, 57, 30, 52, 169, 241, 26, 200, 167, 250, 109>>],
      [key |-> <<255, 255>>, msg |-> <<0, 0, 0, 0, 8, 136, 136, 138>>,
       digest |-> <<7, 82, 172, 204, 230, 29, 29, 185, 160, 244, 84, 143, 132, 137, 114, 93, 253, 148, 0, 3>>],
      [key |-> <<255, 255>>, msg |-> <<0, 0, 0, 0, 8, 136, 136, 139>>,
       digest |-> <<158, 160, 224, 57, 149, 84, 226, 52, 75, 52, 6, 209, 16, 18, 4, 113, 246, 104, 11, 175>>],
      [key |-> <<255, 255>>, msg |-> <<0, 0, 0, 0, 8, 136, 136, 140>>,
       digest |-> <<235, 209, 110, 95, 12, 142, 40, 97, 152, 13, 34, 253, 3, 159, 223, 170, 43, 150, 37, 104>>],
      [key |-> <<255, 255>>, msg |-> <<0, 0, 0, 0, 36, 146, 73, 32>>,
       digest |-> <<23, 147, 62, 180, 220, 107, 107, 40, 125, 37, 75, 160, 48, 48, 187, 199, 7, 82, 187, 254>>],
      [key |-> <<255, 255>>, msg |-> <<0, 0, 0, 0, 36, 146, 73, 36>>,
       digest |-> <<40, 186, 217, 39, 45, 173, 68, 72, 118, 21, 55, 245, 197, 92, 64, 243, 90, 35, 67, 68>>],
      [key |-> <<255, 255>>, msg |-> <<0, 0, 0, 0, 36, 146, 73, 40>>,
       digest |-> <<207, 102, 226, 255, 197, 46, 218, 133, 24, 7, 59, 215, 128, 125, 237, 206, 127, 168, 132, 38>>],
      [key |-> <<255, 255>>, msg |-> <<0, 0, 0, 0, 36, 146, 73, 44>>,
       digest |-> <<20, 169, 161, 181, 74, 46, 192, 12, 227, 139, 212, 96, 125, 106, 9, 151, 11, 45, 108, 163>>],
      [key |-> <<255, 255>>, msg |-> <<0, 0, 0, 0, 36, 146, 73, 48>>,
       digest |-> <<64, 12, 57, 62, 102, 143, 29, 234, 61, 38, 45, 81, 154, 171, 157, 146, 146, 176, 165, 147>>],
      [key |-> <<255, 255>>, msg |-> <<0, 0, 0, 0, 36, 146, 73, 53>>,
       digest |-> <<18, 155, 45, 98, 41, 236, 17, 84, 29, 116, 139, 246, 133, 233, 229, 126, 142, 80, 180, 105>>],
      [key |-> <<255, 255>>, msg |-> <<0, 0, 0, 0, 255, 255, 255, 226>>,
       digest |-> <<110, 90, 155, 243, 174, 137, 106, 86, 206, 150, 28, 118, 196, 179, 236, 75, 77, 22, 121, 158>>],
      [key |-> <<255, 255>>, msg |-> <<0, 0, 0, 0, 255, 255, 255, 227>>,
       digest |-> <<176, 121, 45, 133, 19, 63, 244, 188, 59, 190, 111, 7, 153, 117, 16, 31, 239, 109, 222, 149>>],
      [key |-> <<255, 255>>, msg |-> <<0, 0, 0, 0, 255, 255, 255, 228>>,
       digest |-> <<8, 26, 90, 142, 72, 65, 181, 235, 188, 68, 24, 179, 54, 235, 69, 233, 181, 104, 238, 156>>],
      [key |-> <<255, 255>>, msg |-> <<0, 0, 0, 0, 255, 255, 255, 255>>,
       digest |-> <<50, 99, 72, 165, 21, 40, 186, 102, 162, 245, 87, 145, 116, 255, 244, 220, 74, 199, 109, 238>>],
      [key |-> <<72, 101, 108, 108, 111>> \o Zeros(60), msg |-> <<0, 0, 0, 0, 0, 0, 0, 0>>,
       digest |-> <<1, 148, 30, 167, 106, 234, 193, 72, 238, 247, 164, 148, 217, 155, 126, 223, 150, 55, 44, 28>>],
      [key |-> <<72, 101, 108, 108, 111>> \o Zeros(60), msg |-> <<0, 0, 0, 0, 0, 0, 0, 1>>,
       digest |-> <<211, 214, 30, 22, 173, 56, 189, 205, 129, 59, 201, 189, 138, 149, 91, 97, 54, 190, 191, 96>>],
      [key |-> <<72, 101, 108, 108, 111>> \o Zeros(60), msg |-> <<0, 0, 0, 0, 0, 0, 0, 2>>,
       digest |-> <<96, 194, 30, 57, 53, 99, 246, 138, 138, 38, 172, 87, 234, 98, 3, 6, 150, 34, 65, 85>>],
      [key |-> <<72, 101, 108, 108, 111>> \o Zeros(61), msg |-> <<0, 0, 0, 0, 0, 0, 0, 0>>,
       digest |-> <<186, 111, 31, 198, 216, 38, 131, 11, 68, 123, 156, 250, 251, 71, 180, 9, 95, 38, 126, 196>>],
      [key |-> <<72, 101, 108, 108, 111>> \o Zeros(61), msg |-> <<0, 0, 0, 0, 0, 0, 0, 1>>,
       digest |-> <<81, 30, 21, 172, 70, 194, 0, 78, 243, 21, 34, 4, 127, 174, 250, 49, 176, 211, 215, 97>>],
      [key |-> <<72, 101, 108, 108, 111>> \o Zeros(61), msg |-> <<0, 0, 0, 0, 0, 0, 0, 2>>,
       digest |-> <<44, 183, 234, 163, 48, 160, 174, 178, 59, 157, 223, 43, 186, 140, 84, 206, 7, 149, 167, 223>>],
      [key |-> Zeros(65), msg |-> <<0, 0, 0, 0, 0, 0, 0, 0>>,
       digest |-> <<105, 79, 152, 9, 204, 111, 104, 242, 11, 204, 54, 47, 85, 98, 90, 169, 182, 67, 171, 204>>],
      [key |-> Zeros(65), msg |-> <<0, 0, 0, 0, 0, 0, 0, 1>>,
       digest |-> <<85, 84, 236, 41, 109, 15, 154, 247, 203, 13, 55, 186, 62, 230, 164, 252, 111, 86, 186, 190>>],
      [key |-> Zeros(65), msg |-> <<0, 0, 0, 0, 0, 0, 0, 2>>,
       digest |-> <<202, 131, 26, 217, 57, 136, 206, 220, 251, 154, 147, 163, 65, 214, 202, 189, 247, 51, 224, 192>>] }

\* The digest crypto.subtle.sign returns for key and data.
HmacSha1Digest(key, data) ==
    (CHOOSE e \in HmacSha1Table :
         e.key = HmacKey(key) /\ e.msg = data).digest

\* The outcomes of hmacSha1(key, data): its digest, or a failure thrown by
\* importKey or sign.
HmacOutcomes(key, data) ==
    {[ok |-> TRUE, digest |-> HmacSha1Digest(key, data)],
     [ok |-> FALSE, digest |-> <<>>]}

NoOutcome == [ok |-> FALSE, digest |-> <<>>]

\* The outcomes hmacSha1(key, data) can have, given the calls made so far.
hmacSha1(key, data) ==
    LET known == {e \in oracle : /\ HmacKey(e.key) = HmacKey(key)
                                  /\ e.msg = data}
    IN  IF known = {} THEN HmacOutcomes(key, data) ELSE {e.out : e \in known}

(***************************************************************************)
(* generateTOTP and getTimeRemaining on a ticking clock.                   *)
(***************************************************************************)
Secrets ==
    { <<>>,
      <<"=","=","=","=">>,
      <<"-","-">>,
      <<"1","1","1","1">>,
      <<"J","B","S","W","Y","3","D","P">> }

Windows == {1, 7, 30}

TickMillis == {400, 29000}

\* 1970-01-01T00:00:00Z, and 30 seconds before 2^32 seconds (year 2106).
StartClocks ==
    { [sec |-> <<0, 0, 0>>, ms |-> 0],
      [sec |-> <<0, 65535, 65506>>, ms |-> 0] }

DecoderIdle ==
    /\ str = <<>>
    /\ pc = "start"
    /\ cleanStr = <<>>
    /\ i = 0
    /\ bits = 0
    /\ value = 0
    /\ index = 0
    /\ buffer = <<>>
    /\ valid = Unset

InitTotp ==
    /\ secret \in Secrets
    /\ windowSeconds \in Windows
    /\ now \in StartClocks
    /\ oracle = {}
    /\ calls = <<>>
    /\ ticks = 0
    /\ DecoderIdle
    /\ AppIdle

\* The wall clock advances.
Tick ==
    /\ ticks < MaxTicks
    /\ \E d \in TickMillis :
           now' = [sec |-> BigAddSmall(now.sec, (now.ms + d) \div 1000),
                   ms  |-> (now.ms + d) % 1000]
    /\ ticks' = ticks + 1
    /\ UNCHANGED <<secret, windowSeconds, oracle, calls>>
    /\ UNCHANGED decVars
    /\ UNCHANGED appVars

\* Lines 43-60, up to the await: an empty key returns "INVALID" at once;
\* otherwise the clock is read, the message built and the call suspends.
generateTOTP ==
    /\ Len(calls) < MaxCalls
    /\ LET keyBytes == base32ToBuffer(secret)
           epoch    == MathRoundSeconds(now)
           time     == BigDivSmall(epoch, windowSeconds).quot
           data     == CounterBuffer(time)
       IN  IF Len(keyBytes) = 0
           THEN calls' = Append(calls,
                        [op |-> "generateTOTP", at |-> now,
                         keyBytes |-> keyBytes, hashed |-> FALSE,
                         settled |-> TRUE,
                         time |-> <<0, 0, 0>>, data |-> <<>>,
                         hmac |-> NoOutcome,
                         code |-> INVALID, remaining |-> 0])
           ELSE calls' = Append(calls,
                        [op |-> "generateTOTP", at |-> now,
                         keyBytes |-> keyBytes, hashed |-> TRUE,
                         settled |-> FALSE,
                         time |-> time, data |-> data,
                         hmac |-> NoOutcome,
                         code |-> <<>>, remaining |-> 0])
    /\ UNCHANGED <<secret, windowSeconds, now, oracle, ticks>>
    /\ UNCHANGED decVars
    /\ UNCHANGED appVars

\* Lines 60-75, in a later turn: hmacSha1 returns the digest, which is
\* truncated and formatted, or it throws and the catch returns "ERROR".
Resolve ==
    /\ \E k \in 1..Len(calls) :
        /\ ~calls[k].settled
        /\ \E out \in hmacSha1(calls[k].keyBytes, calls[k].data) :
            /\ oracle' = oracle \cup
                    {[key |-> calls[k].keyBytes, msg |-> calls[k].data,
                      out |-> out]}
            /\ calls' = [calls EXCEPT ![k] =
                    [@ EXCEPT !.settled = TRUE,
                              !.hmac = out,
                              !.code = IF out.ok THEN FormatCode(out.digest)
                                       ELSE ERROR]]
    /\ UNCHANGED <<secret, windowSeconds, now, ticks>>
    /\ UNCHANGED decVars
    /\ UNCHANGED appVars

\* The remainder alone.
TimeRemainingMod(epoch, w) == (w - BigDivSmall(epoch, w).rem) % w

\* Line 80, on the rounded epoch.
TimeRemaining(epoch, w) == w - BigDivSmall(epoch, w).rem

\* Lines 78-81.
getTimeRemaining ==
    /\ Len(calls) < MaxCalls
    /\ calls' = Append(calls,
            [op |-> "getTimeRemaining", at |-> now,
             keyBytes |-> <<>>, hashed |-> FALSE, settled |-> TRUE,
             time |-> <<0, 0, 0>>, data |-> <<>>,
             hmac |-> NoOutcome, code |-> <<>>,
             remaining |-> TimeRemaining(MathRoundSeconds(now),
                                         windowSeconds)])
    /\ UNCHANGED <<secret, windowSeconds, now, oracle, ticks>>
    /\ UNCHANGED decVars
    /\ UNCHANGED appVars

NextTotp == Tick \/ generateTOTP \/ Resolve \/ getTimeRemaining

SpecTotp == InitTotp /\ [][NextTotp]_vars

(***************************************************************************)
(* The App (part_000 lines 17-99): updateCodes, the timer-loop effect with *)
(* its initial call and one-second interval, and the two handlers that     *)
(* change the accounts, on a clock read through Math.round.                *)
(***************************************************************************)
AppSeconds == 3     \* seconds of wall clock after the first reading
MaxAccounts == 2    \* account ids handed out per behaviour
MaxPending == 2     \* updateCodes calls in flight after a change of accounts

AppStartSec == 28

\* The instants of a second at which the clock is looked at: the last
\* millisecond that rounds down and the first that rounds up.
AppInstants == {499, 500}

\* The stored secrets the App starts with (localStorage, lines 18-21).
AccountLists ==
    { <<>>,
      << <<"J","B","S","W","Y","3","D","P">> >> }

\* What is typed into the secret field (line 66).
SecretInputs == { <<"7","7"," ","7","7">>, <<"-","-">> }

\* accounts with ids 1, 2, ... in place of crypto.randomUUID().
WithIds(secrets) == [k \in 1..Len(secrets) |-> [id |-> k, secret |-> secrets[k]]]

\* Lines 45-71 of totp.ts, given the key and the outcome of the hash.
TotpCode(keyBytes, out) ==
    IF Len(keyBytes) = 0 THEN INVALID
    ELSE IF out.ok THEN FormatCode(out.digest) ELSE ERROR

\* newCodes[acc.id] = await generateTOTP(acc.secret), called at clock
\* reading t with hash outcome out: the code, with the time step it was
\* computed for.
CodeEntry(acc, t, out) ==
    LET keyBytes == base32ToBuffer(acc.secret)
    IN  [id     |-> acc.id,
         code   |-> TotpCode(keyBytes, out),
         hashed |-> Len(keyBytes) # 0,
         time   |-> IF Len(keyBytes) = 0 THEN <<>>
                    ELSE BigDivSmall(MathRoundSeconds(t), windowSeconds).quot]

\* The key and message generateTOTP(s) hashes at clock reading t.
HashInput(s, t) ==
    [key |-> base32ToBuffer(s),
     msg |-> CounterBuffer(BigDivSmall(MathRoundSeconds(t), windowSeconds).quot)]

\* The outcomes of the hash in generateTOTP(s) at t; none is drawn for an
\* empty key, which returns before hashing.
HashOutcomes(s, t) ==
    IF Len(base32ToBuffer(s)) = 0 THEN {NoOutcome}
    ELSE hmacSha1(HashInput(s, t).key, HashInput(s, t).msg)

Remember(s, t, out) ==
    IF Len(base32ToBuffer(s)) = 0 THEN oracle
    ELSE oracle \cup {[key |-> HashInput(s, t).key,
                       msg |-> HashInput(s, t).msg, out |-> out]}

\* Lines 40-47 up to the first await, for the account list accs of the
\* closure and the clock reading t: with no account the function runs to
\* its end; otherwise the first generateTOTP reads the clock and suspends.
StartUpdateCodes(accs, t) ==
    /\ refreshedAt' = BigDivSmall(MathRoundSeconds(t), 30).quot
    /\ IF accs = <<>>
       THEN /\ codes' = <<>>
            /\ timeLeft' = TimeRemaining(MathRoundSeconds(t), 30)
            /\ UNCHANGED <<pending, oracle>>
       ELSE \E out \in HashOutcomes(accs[1].secret, t) :
                /\ oracle' = Remember(accs[1].secret, t, out)
                /\ pending' = Append(pending,
                        [accs |-> accs, next |-> 2,
                         newCodes |-> <<CodeEntry(accs[1], t, out)>>])

\* The next of AppInstants after t.
NextInstant(t) ==
    IF \E g \in AppInstants : g > t.ms
    THEN [sec |-> t.sec,
          ms  |-> CHOOSE g \in AppInstants :
                      g > t.ms /\ \A h \in AppInstants : h > t.ms => g <= h]
    ELSE [sec |-> BigAddSmall(t.sec, 1),
          ms  |-> CHOOSE g \in AppInstants : \A h \in AppInstants : g <= h]

\* The readings the clock can give in a callback after giving t: the
\* same, or a later instant of the same second.
LaterReadings(t) ==
    {t} \cup {u \in {NextInstant(t)} : u.sec = t.sec}

InitApp ==
    /\ \E l \in AccountLists :
           /\ accounts = WithIds(l)
           /\ nextId = Len(l) + 1
    /\ codes = <<>>
    /\ timeLeft = 30
    /\ pending = <<>>
    /\ mounted = FALSE
    /\ fired = FALSE
    /\ refreshedAt = <<>>
    /\ secret = <<>>
    /\ windowSeconds = 30
    /\ now = [sec |-> <<0, 0, AppStartSec>>, ms |-> 499]
    /\ oracle = {}
    /\ calls = <<>>
    /\ ticks = 0
    /\ DecoderIdle

\* Lines 50-60, when the effect runs: the initial call; the interval is set
\* and first fires in a later second.
Mount ==
    /\ ~mounted
    /\ mounted' = TRUE
    /\ fired' = TRUE
    /\ StartUpdateCodes(accounts, now)
    /\ IF accounts = <<>> THEN TRUE ELSE UNCHANGED <<codes, timeLeft>>
    /\ UNCHANGED <<accounts, nextId, secret, windowSeconds, now, calls, ticks>>
    /\ UNCHANGED decVars

\* Lines 52-58: the interval callback, once in the current second.  It
\* reads the clock at line 53 (t1, the clock now), again at line 55 (t2)
\* and, when it calls updateCodes, once more inside it (t3: line 46 with
\* no account, the first generateTOTP otherwise); time may have passed
\* between the readings.
TimerTick ==
    /\ mounted
    /\ ~fired
    /\ fired' = TRUE
    /\ \E t2 \in LaterReadings(now) :
        IF TimeRemaining(MathRoundSeconds(t2), 30) = 30
        THEN \E t3 \in LaterReadings(t2) :
                /\ now' = t3
                /\ StartUpdateCodes(accounts, t3)
                /\ IF accounts = <<>> THEN TRUE
                   ELSE /\ timeLeft' = TimeRemaining(MathRoundSeconds(now), 30)
                        /\ UNCHANGED codes
        ELSE /\ now' = t2
             /\ timeLeft' = TimeRemaining(MathRoundSeconds(now), 30)
             /\ UNCHANGED <<codes, pending, oracle, refreshedAt>>
    /\ UNCHANGED <<accounts, nextId, mounted, secret, windowSeconds, calls, ticks>>
    /\ UNCHANGED decVars

\* Lines 42-44: an updateCodes call resumes after an await and calls
\* generateTOTP for the next account of its own list.
UpdateResume ==
    \E p \in 1..Len(pending) :
        /\ pending[p].next <= Len(pending[p].accs)
        /\ LET acc == pending[p].accs[pending[p].next]
           IN  \E out \in HashOutcomes(acc.secret, now) :
                   /\ oracle' = Remember(acc.secret, now, out)
                   /\ pending' = [pending EXCEPT ![p] =
                          [accs |-> pending[p].accs,
                           next |-> pending[p].next + 1,
                           newCodes |-> Append(pending[p].newCodes,
                                               CodeEntry(acc, now, out))]]
        /\ UNCHANGED <<accounts, nextId, codes, timeLeft, mounted, fired,
                       refreshedAt, secret, windowSeconds, now, calls, ticks>>
        /\ UNCHANGED decVars

\* Lines 45-46: the last await returns; setCodes and setTimeLeft.
UpdateFinish ==
    \E p \in 1..Len(pending) :
        /\ pending[p].next > Len(pending[p].accs)
        /\ codes' = pending[p].newCodes
        /\ timeLeft' = TimeRemaining(MathRoundSeconds(now), 30)
        /\ pending' = [k \in 1..(Len(pending) - 1) |->
                          IF k < p THEN pending[k] ELSE pending[k + 1]]
        /\ UNCHANGED <<accounts, nextId, mounted, fired, refreshedAt,
                       secret, windowSeconds, now, oracle, calls, ticks>>
        /\ UNCHANGED decVars

\* Lines 50-60 when updateCodes has a new identity (accounts changed, line
\* 47): the old interval is cleared, updateCodes is called on the new list
\* and a new interval is set, which first fires in a later second.
RerunEffect(accs) ==
    /\ Len(pending) < MaxPending
    /\ fired' = TRUE
    /\ StartUpdateCodes(accs, now)
    /\ IF accs = <<>> THEN TRUE ELSE UNCHANGED <<codes, timeLeft>>

\* Lines 62-92 with a service name: a secret that passes the checks of
\* lines 68-75 is appended (a rejected one changes only the error message).
handleAddAccount ==
    /\ mounted
    /\ nextId <= MaxAccounts
    /\ \E input \in SecretInputs :
        LET secretClean == toUpperCase(RemoveWhitespace(input))
        IN  /\ secretClean # <<>>
            /\ isValidBase32(secretClean)
            /\ accounts' = Append(accounts,
                                  [id |-> nextId, secret |-> secretClean])
            /\ nextId' = nextId + 1
            /\ RerunEffect(Append(accounts,
                                  [id |-> nextId, secret |-> secretClean]))
    /\ UNCHANGED <<mounted, secret, windowSeconds, now, calls, ticks>>
    /\ UNCHANGED decVars

\* Lines 94-99, confirmed.
deleteAccount ==
    /\ mounted
    /\ \E k \in 1..Len(accounts) :
        LET rest == SelectSeq(accounts, LAMBDA a : a.id # accounts[k].id)
        IN  /\ accounts' = rest
            /\ RerunEffect(rest)
    /\ UNCHANGED <<nextId, mounted, secret, windowSeconds, now, calls, ticks>>
    /\ UNCHANGED decVars

\* The wall clock advances to its next instant; it leaves a second only
\* once the interval has fired in it.
ClockAdvance ==
    /\ mounted
    /\ NextInstant(now).sec[3] <= AppStartSec + AppSeconds
    /\ (NextInstant(now).sec # now.sec) => fired
    /\ now' = NextInstant(now)
    /\ fired' = IF NextInstant(now).sec # now.sec THEN FALSE ELSE fired
    /\ UNCHANGED <<accounts, nextId, codes, timeLeft, pending, mounted,
                   refreshedAt, secret, windowSeconds, oracle, calls, ticks>>
    /\ UNCHANGED decVars

NextApp ==
    \/ Mount
    \/ TimerTick
    \/ UpdateResume
    \/ UpdateFinish
    \/ handleAddAccount
    \/ deleteAccount
    \/ ClockAdvance

SpecApp == InitApp /\ [][NextApp]_vars

(***************************************************************************)
(* Properties of the decoder and the validator, under Spec.                *)
(***************************************************************************)
Base32Set == Range(base32Chars)
LetterSet == Range(UpperChars) \cup Range(LowerChars)
ValidatorSet == LetterSet \cup {"2", "3", "4", "5", "6", "7"}

InAlphabet(c) == c \in Base32Set
\* The alphabet characters of s after uppercasing.
OnlyAlphabet(s) == SelectSeq(toUpperCase(s), InAlphabet)
AllAlphabet(s) == \A k \in 1..Len(s) : s[k] \in Base32Set

\* C2: the decoder skips characters outside the alphabet without counting
\* them: the bytes returned for s are those returned for s without its
\* non-alphabet characters, floor(5k/8) of them for k alphabet characters.
ClaimC2_SkipNotCounted ==
    pc = "done" =>
        /\ buffer = base32ToBuffer(OnlyAlphabet(str))
        /\ Len(buffer) = (5 * Len(OnlyAlphabet(str))) \div 8

\* What the claim says of a string: one or more alphabet characters, then
\* zero or more '=', once the whitespace is gone; null is invalid.
SaidValid(a) ==
    /\ a # Null
    /\ LET t == SelectSeq(a, NotWhitespace)
       IN  \E m \in 1..Len(t) :
               /\ \A k \in 1..m : t[k] \in ValidatorSet
               /\ \A k \in (m + 1)..Len(t) : t[k] = "="

\* C8: isValidBase32 returns true exactly for the strings that, without
\* their whitespace, are one or more of A-Z/a-z/2-7 followed by zero or
\* more '='; false for empty, null and whitespace-only input.
ClaimC8_ValidatorExact ==
    valid.called => (valid.res <=> SaidValid(valid.arg))

\* A lower-case, spaced, padded string was accepted.
WitnessC8 ==
    /\ valid.called
    /\ valid.res
    /\ "b" \in Range(valid.arg)
    /\ " " \in Range(valid.arg)
    /\ "=" \in Range(valid.arg)

\* C9: the decoder is whitespace-insensitive: the bytes returned for s are
\* those returned for s without its whitespace.
ClaimC9_WhitespaceInsensitive ==
    pc = "done" => buffer = base32ToBuffer(RemoveWhitespace(str))

\* Bit p (0 = first) of the concatenated 5-bit values of s.
BitAt(s, p) == (indexOf(s[(p \div 5) + 1]) \div Pow2(4 - (p % 5))) % 2

\* Bits 8j .. 8j+7 of the concatenation, most significant first.
SaidByte(s, j) ==
    BitAt(s, 8 * j) * 128 + BitAt(s, 8 * j + 1) * 64
    + BitAt(s, 8 * j + 2) * 32 + BitAt(s, 8 * j + 3) * 16
    + BitAt(s, 8 * j + 4) * 8 + BitAt(s, 8 * j + 5) * 4
    + BitAt(s, 8 * j + 6) * 2 + BitAt(s, 8 * j + 7)

\* C10: on a string of n alphabet characters the decoder emits exactly
\* floor(5n/8) bytes, byte j being bits 8j..8j+7 of the concatenated 5-bit
\* values; after each character the bit count is in 0..7 and the wrapping
\* accumulator has corrupted no emitted byte.
ClaimC10_AlphabetBytes ==
    (AllAlphabet(str) /\ pc # "start") =>
        /\ bits \in 0..7
        /\ bits = (5 * i) % 8
        /\ index = (5 * i) \div 8
        /\ \A j \in 0..(index - 1) : buffer[j + 1] = SaidByte(str, j)
        /\ pc = "done" => /\ i = Len(str)
                          /\ Len(buffer) = (5 * Len(str)) \div 8

\* Eight characters decoded ("KK....77"-like), the accumulator having
\* wrapped into its sign bit.
WitnessC10 ==
    /\ pc = "done"
    /\ AllAlphabet(str)
    /\ Len(str) >= 8
    /\ value < 0
    /\ buffer[5] = 255
    /\ buffer[1] = 82

(***************************************************************************)
(* Properties of generateTOTP and getTimeRemaining, under SpecTotp.        *)
(***************************************************************************)
Generated == {k \in 1..Len(calls) : calls[k].op = "generateTOTP"}
Remainders == {k \in 1..Len(calls) : calls[k].op = "getTimeRemaining"}

IsSixDigits(s) == Len(s) = 6 /\ \A k \in 1..6 : s[k] \in Range(DigitChars)

\* C1: for a secret without any alphabet character, base32ToBuffer returns
\* no byte and generateTOTP returns "INVALID".
ClaimC1_NoAlphabetInvalid ==
    \A k \in Generated :
        OnlyAlphabet(secret) = <<>> =>
            /\ calls[k].keyBytes = <<>>
            /\ calls[k].settled
            /\ calls[k].code = INVALID

\* C3: generateTOTP returns six decimal digits, "INVALID" or "ERROR"; a
\* hashing failure yields "ERROR", a digest yields the six digits, read
\* from inside the digest and from an integer in 0 .. 2^31-1.
ClaimC3_Total ==
    \A k \in Generated :
        LET c == calls[k]
        IN  c.settled =>
            /\ \/ c.code = INVALID
               \/ c.code = ERROR
               \/ IsSixDigits(c.code)
            /\ (c.hashed /\ ~c.hmac.ok) => c.code = ERROR
            /\ (c.hashed /\ c.hmac.ok) =>
                   /\ IsSixDigits(c.code)
                   /\ Len(c.hmac.digest) = DigestLen
                   /\ TruncOffset(c.hmac.digest) + 3 < Len(c.hmac.digest)
                   /\ Binary(c.hmac.digest) \in 0..2147483647
            /\ ~c.hashed => c.code = INVALID

\* One call failed in the hash; another truncated a digest whose first
\* selected byte has its top bit set, into a code that needed padding.
WitnessC3 ==
    \E j, k \in Generated :
        /\ calls[j].settled
        /\ calls[j].code = ERROR
        /\ calls[k].settled
        /\ calls[k].hashed
        /\ calls[k].hmac.ok
        /\ calls[k].hmac.digest[TruncOffset(calls[k].hmac.digest) + 1] >= 128
        /\ IsSixDigits(calls[k].code)
        /\ calls[k].code[1] = "0"

\* The rounded epoch of a clock reading, and its remainder by w.
SaidEpoch(t) == IF t.ms < 500 THEN t.sec ELSE BigAddSmall(t.sec, 1)
SaidCounter(t, w) == BigDivSmall(SaidEpoch(t), w).quot
SaidRem(t, w) == BigDivSmall(SaidEpoch(t), w).rem

\* C4: getTimeRemaining returns an integer in 1 .. window_seconds, and
\* window_seconds when the rounded epoch is a multiple of it.
ClaimC4_RemainingRange ==
    \A k \in Remainders :
        /\ calls[k].remaining \in 1..windowSeconds
        /\ SaidRem(calls[k].at, windowSeconds) = 0 =>
               calls[k].remaining = windowSeconds

\* A call on a window boundary of a 30-second window, past the epoch.
WitnessC4 ==
    \E k \in Remainders :
        /\ windowSeconds = 30
        /\ SaidRem(calls[k].at, windowSeconds) = 0
        /\ SaidEpoch(calls[k].at) # <<0, 0, 0>>
        /\ calls[k].remaining = 30

\* The eight big-endian bytes of a counter of three limbs.
BigEndian64(c) ==
    <<0, 0, c[1] \div 256, c[1] % 256, c[2] \div 256, c[2] % 256,
      c[3] \div 256, c[3] % 256>>

\* C5: the message passed to HMAC is the 64-bit big-endian encoding of the
\* counter: its high 4 bytes are zero exactly when the counter is at most
\* 2^32-1.
ClaimC5_Counter64 ==
    \A k \in Generated :
        calls[k].hashed =>
            /\ calls[k].data = BigEndian64(SaidCounter(calls[k].at, windowSeconds))
            /\ (SubSeq(calls[k].data, 1, 4) = <<0, 0, 0, 0>>
                  <=> SaidCounter(calls[k].at, windowSeconds)[1] = 0)

\* C6: two calls whose clock readings fall within the same wall-clock
\* second compute the same counter.
ClaimC6_SameSecondSameCounter ==
    \A j, k \in Generated :
        (calls[j].hashed /\ calls[k].hashed
            /\ calls[j].at.sec = calls[k].at.sec)
        => calls[j].time = calls[k].time

\* C7: for the secret and the window of the behaviour, the code depends on
\* the clock through the counter alone: two calls in the same window, in
\* any order and whatever came before, return the same code, and the
\* epochs N*w-1 and N*w have different counters.
ClaimC7_CounterOnly ==
    \A j, k \in Generated :
        /\ (calls[j].settled /\ calls[k].settled
              /\ SaidCounter(calls[j].at, windowSeconds)
                    = SaidCounter(calls[k].at, windowSeconds))
           => calls[j].code = calls[k].code
        /\ (calls[j].hashed /\ calls[k].hashed
              /\ SaidRem(calls[k].at, windowSeconds) = 0
              /\ BigAddSmall(SaidEpoch(calls[j].at), 1) = SaidEpoch(calls[k].at))
           => calls[j].time # calls[k].time

\* Two hashed calls at different epochs of one 30-second window returned
\* the same six digits.
WitnessC7 ==
    \E j, k \in Generated :
        /\ j < k
        /\ calls[j].hashed
        /\ calls[k].hashed
        /\ calls[j].settled
        /\ calls[k].settled
        /\ calls[j].at # calls[k].at
        /\ windowSeconds = 30
        /\ SaidEpoch(calls[j].at) # SaidEpoch(calls[k].at)
        /\ SaidCounter(calls[j].at, 30) = SaidCounter(calls[k].at, 30)
        /\ calls[j].code = calls[k].code
        /\ IsSixDigits(calls[k].code)

(***************************************************************************)
(* Properties of the App's timer loop, under SpecApp.                      *)
(***************************************************************************)
\* C11: the timer loop refreshes the codes in every window: once the two
\* seconds in which the clock can read the start of the current window
\* have passed, a tick of that window has called updateCodes, and when no
\* update is pending no displayed code is that of an earlier window.
ClaimC11_RefreshEveryWindow ==
    (mounted /\ SaidRem(now, 30) \in 2..29) =>
        /\ refreshedAt = SaidCounter(now, 30)
        /\ pending = <<>> =>
               \A a \in 1..Len(accounts) : \A k \in 1..Len(codes) :
                   (codes[k].id = accounts[a].id /\ codes[k].hashed)
                       => codes[k].time = SaidCounter(now, 30)

====
